---- MODULE Spec2Model ----
(***************************************************************************)
(* Provider-integration layer of buffett-screener:                         *)
(*   RateLimiter and BaseProvider.with_retry   (app/providers/base.py)     *)
(*   YahooYFinanceProvider                     (app/providers/             *)
(*                                              yahoo_yfinance.py)         *)
(*   ProviderError hierarchy                   (app/domain/                *)
(*                                              provider_contracts.py)     *)
(*                                                                         *)
(* Time is counted in ticks of 0.1 s, the guard the limiter adds to its    *)
(* sleep.  The clock is taken to be monotonic.                             *)
(***************************************************************************)
EXTENDS Integers, Sequences, FiniteSets, TLC

\* ------------------------------------------------------------------------
\* Bounds of the model
\* ------------------------------------------------------------------------
NumTasks == 3
MaxTime == 12
MaxRequestsBound == 2
MaxAttempts == 3
FetchHorizon == 100
RawMaxTicks == 1
MaxInstances == 2
MaxBatch == 3
MaxRegistries == 2
MaxRefs == 3
MaxRows == 3
CallsUntil == 1

\* ------------------------------------------------------------------------
\* Program constants
\* ------------------------------------------------------------------------
\* one second in ticks; the limiter's guard "+ 0.1" is one tick
TicksPerSecond == 10
Epsilon == 1

NoTask == 0
Never == -1
Tasks == 1 .. NumTasks

VARIABLES
    \* RateLimiter fields
    max_requests, time_window_seconds, request_times,
    \* asyncio.Lock of the limiter: owner and FIFO of waiting tasks
    lock_owner, lock_waiters,
    \* wall clock (time.time()), in ticks
    now,
    \* each task's position in acquire(): "idle", "waiting", "sleeping"
    tpc,
    \* the time a sleeping task's asyncio.sleep() ends
    wake_at,
    \* the value returned by get_remaining_requests() when the last step was
    \* a call of it, Never otherwise
    remaining,
    \* history of each task's acquire() call: of the call in progress, or of
    \* the call that returned in the last step
    acq

limVars == << max_requests, time_window_seconds, request_times, lock_owner,
              lock_waiters, now, tpc, wake_at, remaining, acq >>

VARIABLES
    \* BaseProvider fields
    provider_name, retry_attempts, retry_base_delay, retry_max_delay,
    request_timeout,
    \* with_retry: position ("idle", "attempt", "backoff", "returned",
    \* "raised"), its ticker argument, the loop variable, last_exception
    wpc, w_ticker, attempt, last_exception,
    \* the value with_retry returned and the error it raised
    w_result, w_raised,
    \* history of the with_retry call: number of invocations of the wrapped
    \* operation, the errors it raised, the delays slept
    calls, errs, sleeps

retryVars == << provider_name, retry_attempts, retry_base_delay,
                retry_max_delay, request_timeout, wpc, w_ticker, attempt,
                last_exception, w_result, w_raised, calls, errs, sleeps >>

VARIABLES
    \* the fetch in progress: position ("idle", "running", "returned",
    \* "raised"), capability method, requested ticker, how it was started
    \* ("fetch": fetch_<method>(ticker); "impl": with_retry given
    \* _fetch_<method>_impl and the ticker as a positional argument), and the
    \* positional arguments with_retry forwards to the operation
    fpc, f_method, f_ticker, f_via, f_args,
    \* what the fetch returned and the error it raised
    f_result, f_raised,
    \* position inside _fetch_<method>_impl: "none", "acquire", "raw"
    ipc,
    \* what the provider does with the next raw call
    provider_mode,
    \* history of the fetch: the tickers the raw calls were made with, what
    \* the provider did with each, the snapshots taken
    raw_calls, raw_log, snapshots,
    \* the time the raw call in flight was started; the time with_retry's
    \* backoff sleep ends
    raw_started, backoff_until,
    \* the provider's db_session: "none", a session that works ("ok"), or
    \* one whose add() or commit() raises ("failing"); the snapshot ids
    \* committed through it, and the number of its rollbacks
    db_session, db_rows, db_rollbacks,
    \* the number of identifiers generated so far (uuid4)
    uuid_next

fetchVars == << fpc, f_method, f_ticker, f_via, f_args, f_result, f_raised,
                ipc, provider_mode, raw_calls, raw_log, snapshots,
                raw_started, backoff_until, db_session, db_rows,
                db_rollbacks, uuid_next >>

VARIABLES
    \* ProviderRegistry._providers: the class registered under each
    \* (provider_type, name) key, NoClass where the key is absent
    providers,
    \* the number of adapter instances created so far
    instances,
    \* the last registry call: operation, arguments, and what it returned
    \* or raised
    r_last,
    \* the class the last call was given to register and the class its key
    \* held before (NoClass for the other calls)
    r_call,
    \* the instances get_provider has returned, in order
    r_handed,
    \* the ProviderRegistry objects constructed in the process (the
    \* _providers dict of each, in order of construction), the object the
    \* lru_cache of get_provider_registry holds (0 while it holds none) and
    \* the objects the get_provider_registry calls returned, in order
    registries, registry_cache, registry_refs

singletonVars == << registries, registry_cache, registry_refs >>

regVars == << providers, instances, r_last, r_call, r_handed, singletonVars >>

VARIABLES
    \* the fetch_batch_<method> call: position ("idle", "running", "done"),
    \* method, the tickers given, the position in them of the ticker being
    \* fetched, and the results dict
    b_pc, b_method, b_tickers, b_idx, b_results,
    \* history of the batch: the tickers whose fetch was started, and how
    \* the fetch for each position ended
    b_started, b_outcomes

batchVars == << b_pc, b_method, b_tickers, b_idx, b_results, b_started,
                b_outcomes >>

VARIABLES
    \* the normalizer called last ("none" before any call), and the
    \* arguments and the result of _normalize_financial_statements,
    \* _get_financial_field and _normalize_company_profile
    n_op, st_in, st_out, ff_in, ff_out, cp_in, cp_out,
    \* the arguments and the result of _normalize_price_history
    ph_in, ph_out

normVars == << n_op, st_in, st_out, ff_in, ff_out, cp_in, cp_out, ph_in, ph_out >>

vars == << limVars, retryVars, fetchVars, regVars, batchVars, normVars >>

\* ------------------------------------------------------------------------
\* RateLimiter
\* ------------------------------------------------------------------------
WindowTicks == time_window_seconds * TicksPerSecond

\* while self.request_times and current_time - self.request_times[0] > window:
\*     self.request_times.popleft()
RECURSIVE PopExpired(_, _)
PopExpired(q, t) ==
    IF q # << >> /\ t - Head(q) > WindowTicks
    THEN PopExpired(Tail(q), t)
    ELSE q

\* (mutation: the capacity test is off by one)
AtCapacity_OffByOne(q) == Len(q) > max_requests

\* if len(self.request_times) >= self.max_requests
AtCapacity(q) == Len(q) >= max_requests

\* (mutation: the time already elapsed is subtracted twice)
SleepTime_Short(q, t) == WindowTicks - 2 * (t - Head(q)) + Epsilon

\* sleep_time = window - (current_time - request_times[0]) + 0.1
SleepTime(q, t) == WindowTicks - (t - Head(q)) + Epsilon

\* Timestamps of q that are not older than the window at time t.
InWindow(q, t) == { i \in DOMAIN q : t - q[i] <= WindowTicks }

\* The oldest timestamp of q that is not older than the window at time t.
OldestInWindow(q, t) ==
    LET live == InWindow(q, t) IN
    IF live = {} THEN Never ELSE q[CHOOSE i \in live : \A j \in live : i <= j]

\* window_seconds - (t - oldest timestamp) has elapsed since t at this time
NotBefore(q, t) ==
    IF InWindow(q, t) = {} THEN Never ELSE OldestInWindow(q, t) + WindowTicks

\* History of one acquire() call.
\*   called      the task has called acquire()
\*   ran         the call has held the lock and read the clock (line 56)
\*   fullAtCall  max_requests timestamps were unexpired when it was called
\*   fullAtBody  the same when it read the clock
\*   waited      it was suspended on the lock
\*   slept       it was suspended in asyncio.sleep
\*   nbCall      time before which it may not record, judged at the call
\*   nbBody      the same judged when it read the clock
\*   early       it recorded before nbCall / nbBody
NoAcq == [ called |-> FALSE, ran |-> FALSE, fullAtCall |-> FALSE,
           fullAtBody |-> FALSE, waited |-> FALSE, slept |-> FALSE,
           nbCall |-> Never, nbBody |-> Never,
           earlyCall |-> FALSE, earlyBody |-> FALSE, returned |-> FALSE ]

CallRecord ==
    [ NoAcq EXCEPT !.called = TRUE,
                   !.fullAtCall = Cardinality(InWindow(request_times, now)) >= max_requests,
                   !.nbCall = IF Cardinality(InWindow(request_times, now)) >= max_requests
                              THEN NotBefore(request_times, now) ELSE Never ]

BodyRecord(rec) ==
    [ rec EXCEPT !.ran = TRUE,
                 !.fullAtBody = Cardinality(InWindow(request_times, now)) >= max_requests,
                 !.nbBody = IF Cardinality(InWindow(request_times, now)) >= max_requests
                            THEN NotBefore(request_times, now) ELSE Never ]

\* the call records its timestamp now and returns
ReturnRecord(rec) ==
    [ rec EXCEPT !.returned = TRUE,
                 !.earlyCall = now < rec.nbCall,
                 !.earlyBody = now < rec.nbBody,
                 !.nbCall = Never,
                 !.nbBody = Never ]

\* The histories of the calls that returned before this step are dropped.
Forget(h) == [ u \in Tasks |-> IF h[u].returned THEN NoAcq ELSE h[u] ]

\* The body of acquire() up to its first suspension point, run by task t
\* once it holds the lock (lines 56-77).  rec is the history of the call.
AcquireBody(t, rec) ==
    LET current_time == now
        q == PopExpired(request_times, current_time)
    IN  IF AtCapacity(q)
        THEN /\ request_times' = q
             /\ lock_owner' = t
             /\ tpc' = [ tpc EXCEPT ![t] = "sleeping" ]
             /\ wake_at' = [ wake_at EXCEPT ![t] = current_time + SleepTime(q, current_time) ]
             /\ acq' = [ Forget(acq) EXCEPT ![t] = [ BodyRecord(rec) EXCEPT !.slept = TRUE ] ]
        ELSE /\ request_times' = Append(q, current_time)
             /\ lock_owner' = NoTask
             /\ tpc' = [ tpc EXCEPT ![t] = "idle" ]
             /\ wake_at' = wake_at
             /\ acq' = [ Forget(acq) EXCEPT ![t] = ReturnRecord(BodyRecord(rec)) ]

\* (mutation: a caller takes an unlocked lock although others wait for it)
LockFree_IgnoresWaiters == lock_owner = NoTask

\* asyncio.Lock.acquire(): taken at once when unlocked and nobody waits
LockFree == lock_owner = NoTask /\ lock_waiters = << >>

\* Task t calls acquire().  With the lock free it runs the body at once;
\* otherwise it queues on the lock.
AcquireCall(t) ==
    /\ tpc[t] = "idle"
    /\ IF LockFree
       THEN /\ AcquireBody(t, CallRecord)
            /\ UNCHANGED lock_waiters
       ELSE /\ lock_waiters' = Append(lock_waiters, t)
            /\ tpc' = [ tpc EXCEPT ![t] = "waiting" ]
            /\ acq' = [ Forget(acq) EXCEPT ![t] = [ CallRecord EXCEPT !.waited = TRUE ] ]
            /\ UNCHANGED << request_times, lock_owner, wake_at >>
    /\ remaining' = Never
    /\ UNCHANGED << max_requests, time_window_seconds, now >>

\* The lock was released and the first waiter is woken: it takes the lock
\* and runs the body.
AcquireGranted(t) ==
    /\ tpc[t] = "waiting"
    /\ lock_owner = NoTask
    /\ lock_waiters # << >>
    /\ Head(lock_waiters) = t
    /\ lock_waiters' = Tail(lock_waiters)
    /\ AcquireBody(t, acq[t])
    /\ remaining' = Never
    /\ UNCHANGED << max_requests, time_window_seconds, now >>

\* (mutation: the sleeper records its timestamp and keeps the lock)
AcquireWake_KeepsLock(t) ==
    /\ tpc[t] = "sleeping"
    /\ now >= wake_at[t]
    /\ request_times' = Append(PopExpired(request_times, now), now)
    /\ acq' = [ Forget(acq) EXCEPT ![t] = ReturnRecord(acq[t]) ]
    /\ lock_owner' = t
    /\ tpc' = [ tpc EXCEPT ![t] = "idle" ]
    /\ wake_at' = [ wake_at EXCEPT ![t] = Never ]
    /\ remaining' = Never
    /\ UNCHANGED << max_requests, time_window_seconds, lock_waiters, now >>

\* asyncio.sleep(sleep_time) is over: prune again, record, release the lock
\* (lines 71-77).
AcquireWake(t) ==
    /\ tpc[t] = "sleeping"
    /\ now >= wake_at[t]
    /\ LET current_time == now
           q == PopExpired(request_times, current_time)
       IN  request_times' = Append(q, current_time)
    /\ acq' = [ Forget(acq) EXCEPT ![t] = ReturnRecord(acq[t]) ]
    /\ lock_owner' = NoTask
    /\ tpc' = [ tpc EXCEPT ![t] = "idle" ]
    /\ wake_at' = [ wake_at EXCEPT ![t] = Never ]
    /\ remaining' = Never
    /\ UNCHANGED << max_requests, time_window_seconds, lock_waiters, now >>

\* get_remaining_requests(): synchronous, takes no lock (lines 86-91)
GetRemainingRequests ==
    /\ LET q == PopExpired(request_times, now)
       IN  /\ request_times' = q
           /\ remaining' = IF max_requests - Len(q) > 0
                           THEN max_requests - Len(q) ELSE 0
    /\ acq' = Forget(acq)
    /\ UNCHANGED << max_requests, time_window_seconds, lock_owner,
                    lock_waiters, now, tpc, wake_at >>

\* The clock advances by one tick.
Tick ==
    /\ now < MaxTime
    /\ now' = now + 1
    /\ remaining' = Never
    /\ acq' = Forget(acq)
    /\ UNCHANGED << max_requests, time_window_seconds, request_times,
                    lock_owner, lock_waiters, tpc, wake_at >>

\* RateLimiter.__init__ (lines 43-46)
LimiterInit ==
    /\ max_requests \in 1 .. MaxRequestsBound
    /\ time_window_seconds = 1
    /\ request_times = << >>
    /\ lock_owner = NoTask
    /\ lock_waiters = << >>
    /\ now = 0
    /\ tpc = [ t \in Tasks |-> "idle" ]
    /\ wake_at = [ t \in Tasks |-> Never ]
    /\ remaining = Never
    /\ acq = [ t \in Tasks |-> NoAcq ]


\* ------------------------------------------------------------------------
\* ProviderError hierarchy (domain/provider_contracts.py)
\* ------------------------------------------------------------------------
\* Strings are sequences of words.  NoTicker is Python's None.
NoTicker == "<None>"
Tickers == { NoTicker, "", "AAPL", "INVALID" }

\* bool(ticker)
Truthy(tk) == tk \notin { NoTicker, "" }

\* str.lower() on the words that occur
Lower(w) ==
    CASE w = "Invalid" -> "invalid"
      [] w = "INVALID" -> "invalid"
      [] w = "InvalidURL" -> "invalidurl"
      [] w = "Not Found" -> "not found"
      [] w = "NOT FOUND" -> "not found"
      [] w = "AAPL" -> "aapl"
      [] w = "TimeoutError" -> "timeouterror"
      [] w = "FileNotFoundError" -> "filenotfounderror"
      [] w = "ValueError" -> "valueerror"
      [] w = "TypeError" -> "typeerror"
      [] w = "RateLimitError" -> "ratelimiterror"
      [] w = "ProviderError" -> "providererror"
      [] w = "InsufficientDataError" -> "insufficientdataerror"
      [] w = "Failed after" -> "failed after"
      [] w = "Error fetching" -> "error fetching"
      [] w = "Failed to fetch" -> "failed to fetch"
      [] OTHER -> w

\* pat in w, for the lower-case words that occur
HasSubstring(w, pat) ==
    CASE pat = "invalid" -> w \in { "invalid", "invalidurl" }
      [] pat = "not found" -> w \in { "not found" }
      [] OTHER -> w = pat

\* pat in " ".join(text).lower()
ContainsLower(text, pat) ==
    \E i \in DOMAIN text : HasSubstring(Lower(text[i]), pat)

\* An exception object: its class, its message, the ProviderError fields
\* (provider_name, ticker, original: original_exception) and serial, the
\* number of the invocation that raised it (what tells two equal-looking
\* exception objects apart).  NoError is None.
NoError == [ cls |-> "None" ]

\* ProviderError.__init__ (lines 268-272) and its subclasses
MakeError(cls, msg, pn, tk, orig) ==
    [ cls |-> cls, message |-> msg, provider_name |-> pn, ticker |-> tk,
      original |-> orig, serial |-> 0 ]

\* an exception that is no ProviderError
MakeException(cls, msg) == MakeError(cls, msg, "", NoTicker, NoError)

ProviderErrorClasses == { "ProviderError", "RateLimitError", "InsufficientDataError" }

\* isinstance(e, ProviderError)
IsProviderError(e) == e.cls \in ProviderErrorClasses

\* ProviderError.__str__ (lines 274-282); str() of another exception is its
\* message.
Str(e) ==
    IF IsProviderError(e)
    THEN << e.provider_name >>
         \o (IF Truthy(e.ticker) THEN << "ticker=", e.ticker >> ELSE << >>)
         \o e.message
         \o (IF e.original.cls # "None"
             THEN << "(caused by:", e.original.cls, ")" >> ELSE << >>)
    ELSE e.message

\* ------------------------------------------------------------------------
\* BaseProvider.with_retry (providers/base.py)
\* ------------------------------------------------------------------------
NoValue == "<no value>"
Digits == << "0", "1", "2", "3", "4", "5", "6" >>
\* f"{n}"
ToStr(n) == Digits[n + 1]

Min(a, b) == IF a <= b THEN a ELSE b
Range(f) == { f[i] : i \in DOMAIN f }

\* (mutation: RateLimitError falls through to the ProviderError branch)
Classify_NoRateLimitBranch(e) ==
    IF IsProviderError(e)
    THEN IF ContainsLower(Str(e), "invalid") \/ ContainsLower(Str(e), "not found")
         THEN "raise" ELSE "retry"
    ELSE "retry"

\* (mutation: the permanent patterns are compared case-sensitively)
Classify_CaseSensitive(e) ==
    IF e.cls = "RateLimitError" THEN "raise"
    ELSE IF IsProviderError(e)
    THEN IF \E i \in DOMAIN Str(e) :
                HasSubstring(Str(e)[i], "invalid") \/ HasSubstring(Str(e)[i], "not found")
         THEN "raise" ELSE "retry"
    ELSE "retry"

\* The except clauses of with_retry (lines 187-207): "raise" re-raises the
\* error, "retry" records it in last_exception and goes on.
Classify(e) ==
    IF e.cls = "RateLimitError" THEN "raise"
    ELSE IF IsProviderError(e)
    THEN IF ContainsLower(Str(e), "invalid") \/ ContainsLower(Str(e), "not found")
         THEN "raise" ELSE "retry"
    ELSE "retry"

\* (mutation: the delay is not capped)
Delay_NoCap(k) == retry_base_delay * (2 ^ (k - 1))

\* delay = min(base_delay * 2 ** (attempt - 1), max_delay) (lines 212-215)
Delay(k) == Min(retry_base_delay * (2 ^ (k - 1)), retry_max_delay)

\* (mutation: the error raised after the last attempt drops the cause)
ExhaustedError_NoCause(tk, last) ==
    MakeError("ProviderError",
              << "Failed after", ToStr(retry_attempts), "attempts" >>
                  \o (IF Truthy(tk) THEN << "for ticker", tk >> ELSE << >>),
              provider_name, tk, NoError)

\* The error raised when all attempts are used up (lines 220-229)
ExhaustedError(tk, last) ==
    MakeError("ProviderError",
              << "Failed after", ToStr(retry_attempts), "attempts" >>
                  \o (IF Truthy(tk) THEN << "for ticker", tk >> ELSE << >>),
              provider_name, tk, last)

\* with_retry(func, ticker=tk) is called (line 181 and the loop head)
WithRetryCall(tk) ==
    /\ wpc \in { "idle", "returned", "raised" }
    /\ w_ticker' = tk
    /\ last_exception' = NoError
    /\ w_result' = NoValue
    /\ calls' = 0
    /\ errs' = << >>
    /\ sleeps' = << >>
    /\ IF retry_attempts >= 1
       THEN /\ wpc' = "attempt"
            /\ attempt' = 1
            /\ w_raised' = NoError
       ELSE /\ wpc' = "raised"
            /\ attempt' = 0
            /\ w_raised' = ExhaustedError(tk, NoError)
    /\ UNCHANGED << provider_name, retry_attempts, retry_base_delay,
                    retry_max_delay, request_timeout >>

\* (mutation: a backoff sleep is taken after the attempt that succeeded)
HandleOutcome_SleepsAfterSuccess(out) ==
    /\ wpc = "attempt"
    /\ calls' = calls + 1
    /\ IF out.kind = "return"
       THEN /\ wpc' = "returned"
            /\ w_result' = out.value
            /\ sleeps' = Append(sleeps, Delay(attempt))
            /\ UNCHANGED << last_exception, w_raised, errs >>
       ELSE LET e == [ out.err EXCEPT !.serial = calls + 1 ] IN
            /\ errs' = Append(errs, e)
            /\ w_result' = w_result
            /\ IF Classify(e) = "raise"
               THEN /\ wpc' = "raised"
                    /\ w_raised' = e
                    /\ UNCHANGED << last_exception, sleeps >>
               ELSE /\ last_exception' = e
                    /\ IF attempt < retry_attempts
                       THEN /\ wpc' = "backoff"
                            /\ sleeps' = Append(sleeps, Delay(attempt))
                            /\ w_raised' = w_raised
                       ELSE /\ wpc' = "raised"
                            /\ sleeps' = sleeps
                            /\ w_raised' = ExhaustedError(w_ticker, e)
    /\ UNCHANGED << provider_name, retry_attempts, retry_base_delay,
                    retry_max_delay, request_timeout, w_ticker, attempt >>

\* with_retry's handling of what one invocation of the operation did
\* (lines 184-217 and, after the last attempt, 219-229).  out.kind is
\* "return" (out.value) or "raise" (out.err).
HandleOutcome(out) ==
    /\ wpc = "attempt"
    /\ calls' = calls + 1
    /\ IF out.kind = "return"
       THEN /\ wpc' = "returned"
            /\ w_result' = out.value
            /\ UNCHANGED << last_exception, w_raised, errs, sleeps >>
       ELSE LET e == [ out.err EXCEPT !.serial = calls + 1 ] IN
            /\ errs' = Append(errs, e)
            /\ w_result' = w_result
            /\ IF Classify(e) = "raise"
               THEN /\ wpc' = "raised"
                    /\ w_raised' = e
                    /\ UNCHANGED << last_exception, sleeps >>
               ELSE /\ last_exception' = e
                    /\ IF attempt < retry_attempts
                       THEN /\ wpc' = "backoff"
                            /\ sleeps' = Append(sleeps, Delay(attempt))
                            /\ w_raised' = w_raised
                       ELSE /\ wpc' = "raised"
                            /\ sleeps' = sleeps
                            /\ w_raised' = ExhaustedError(w_ticker, e)
    /\ UNCHANGED << provider_name, retry_attempts, retry_base_delay,
                    retry_max_delay, request_timeout, w_ticker, attempt >>

\* The operation is invoked and does out.
Attempt(out) == HandleOutcome(out)

\* asyncio.sleep(delay) is over: the loop goes to the next attempt
BackoffWake ==
    /\ wpc = "backoff"
    /\ wpc' = "attempt"
    /\ attempt' = attempt + 1
    /\ UNCHANGED << provider_name, retry_attempts, retry_base_delay,
                    retry_max_delay, request_timeout, w_ticker,
                    last_exception, w_result, w_raised, calls, errs, sleeps >>

\* What an arbitrary operation may do when invoked.
OpError(cls, msg, tk, cause) ==
    MakeError(cls, msg, "yahoo_finance", tk,
              IF cause = "None" THEN NoError ELSE MakeException(cause, << "boom" >>))

OpErrors ==
    { OpError("RateLimitError", << "throttled" >>, "AAPL", "None"),
      OpError("RateLimitError", << "Not Found" >>, NoTicker, "None"),
      OpError("ProviderError", << "timeout" >>, "AAPL", "None"),
      OpError("ProviderError", << "timeout" >>, NoTicker, "TimeoutError"),
      OpError("ProviderError", << "ticker", "Not Found" >>, "AAPL", "None"),
      OpError("ProviderError", << "Invalid", "symbol" >>, NoTicker, "ValueError"),
      OpError("ProviderError", << "timeout" >>, "INVALID", "None"),
      OpError("ProviderError", << "timeout" >>, "AAPL", "InvalidURL"),
      OpError("ProviderError", << "timeout" >>, "AAPL", "FileNotFoundError"),
      OpError("InsufficientDataError", << "no data" >>, "AAPL", "None"),
      OpError("InsufficientDataError", << "not found" >>, "AAPL", "None"),
      MakeException("ValueError", << "Invalid", "literal" >>),
      MakeException("TimeoutError", << "timeout" >>) }

OpOutcomes ==
    { [ kind |-> "return", value |-> v, err |-> NoError ] : v \in { "value", "None", "[]" } }
    \cup { [ kind |-> "raise", value |-> NoValue, err |-> e ] : e \in OpErrors }

\* BaseProvider.__init__ (lines 124-129): no argument is validated
ProviderInit ==
    /\ provider_name = "yahoo_finance"
    /\ retry_attempts \in 0 .. MaxAttempts
    /\ retry_base_delay \in { 1, 2 }
    /\ retry_max_delay \in { 3, 60 }
    /\ request_timeout = 1
    /\ wpc = "idle"
    /\ w_ticker = NoTicker
    /\ attempt = 0
    /\ last_exception = NoError
    /\ w_result = NoValue
    /\ w_raised = NoError
    /\ calls = 0
    /\ errs = << >>
    /\ sleeps = << >>

\* ------------------------------------------------------------------------
\* YahooYFinanceProvider: single-item fetches (providers/yahoo_yfinance.py)
\* ------------------------------------------------------------------------
FetchTask == 1
Methods == { "company_profile", "financial_statements", "price_history" }
FetchTickers == { "AAPL", "aapl", "INVALID" }

\* What the raw yfinance call does: returns a usable payload, a payload that
\* normalizes to nothing, an empty payload; raises a network error, the
\* throttling error, an error that says "Not Found"; or never returns.
RawOutcomes == { "ok", "unusable", "empty", "error", "rate_limit",
                 "not_found", "hang" }

\* ticker.upper()
Upper(tk) == IF tk = "aapl" THEN "AAPL" ELSE tk

\* the DTO(s) the normalizers build from a usable payload
\* (lines 242-252, 483-514, 839-844)
Dto(m, tk) == [ kind |-> m, ticker |-> Upper(tk) ]

\* what a fetch returns when there is nothing to return: None, or the
\* empty list for statements (lines 153, 342, 449, 687, 240, 830)
Nothing(m) == IF m = "financial_statements" THEN "[]" ELSE "None"

\* the exception the raw call raises
RawError(mode, tk) ==
    CASE mode = "error" -> MakeException("TimeoutError", << "timeout" >>)
      [] mode = "rate_limit" ->
            MakeError("RateLimitError", << "Too Many Requests" >>,
                      "yahoo_finance", tk, NoError)
      [] mode = "not_found" -> MakeException("ValueError", << "Not Found" >>)

\* (mutation: the wrapping error does not carry the failure it wraps)
WrapError_CauseDropped(prefix, m, tk, e) ==
    MakeError("ProviderError", << prefix, m >> \o Str(e), provider_name, tk, NoError)

\* raise ProviderError(message=f"<prefix> <method>: {e}", provider_name=...,
\* ticker=ticker, original_exception=e)
\* (lines 122-127, 177-182 and the same in the other two methods)
WrapError(prefix, m, tk, e) ==
    MakeError("ProviderError", << prefix, m >> \o Str(e), provider_name, tk, e)

DbSessions == { "none", "ok", "failing" }
NoId == 0

\* snapshot.snapshot_id after _log_raw_snapshot, for the k-th snapshot
\* logged by an attempt.  The column default str(uuid4()) (models/
\* provider.py lines 39-44) is applied when the row is inserted, that is by
\* a commit that succeeds (yahoo_yfinance.py line 1067); the constructor
\* call at lines 1053-1061 passes no snapshot_id and leaves it None.
SnapshotId(k) == IF db_session = "ok" THEN uuid_next + k ELSE NoId

\* _log_raw_snapshot(entity_type, entity_key, payload): the snapshot it
\* returns (lines 1053-1061, 1088)
LogRawSnapshot(entity_type, entity_key, payload, k) ==
    [ snapshot_id |-> SnapshotId(k),
      provider_name |-> provider_name,
      entity_type |-> entity_type,
      entity_key |-> entity_key,
      fetched_at |-> now,
      payload |-> payload ]

\* (mutation: a failure of add() or commit() leaves _log_raw_snapshot)
PersistFailureEscapes_Uncaught == db_session = "failing"

\* whether a failure of add() or commit() leaves _log_raw_snapshot: it is
\* caught by `except Exception` and the session rolled back (lines
\* 1073-1078)
PersistFailureEscapes == FALSE

\* the snapshots one attempt logs for a non-empty payload: one for a
\* profile or a price history, one per table for statements
\* (lines 156-160, 345-351, 690-694)
SnapshotsOf(m, tk, mode) ==
    IF m = "financial_statements"
    THEN [ i \in 1 .. 3 |->
             LogRawSnapshot(<< "financial_statement_income",
                               "financial_statement_balance",
                               "financial_statement_cashflow" >>[i],
                            tk, mode, i) ]
    ELSE << LogRawSnapshot(m, tk, mode, 1) >>

\* What _fetch_<method>_impl(tk) does once the raw call has come back: it
\* returns the normalized DTO(s) or nothing, or raises the ProviderError it
\* wraps the raw call's exception in (lines 147-182, 332-378, 676-721).
ImplOutcome(m, tk, mode) ==
    CASE mode = "ok" -> [ kind |-> "return", value |-> Dto(m, tk), err |-> NoError ]
      [] mode \in { "unusable", "empty" } ->
            [ kind |-> "return", value |-> Nothing(m), err |-> NoError ]
      [] OTHER -> [ kind |-> "raise", value |-> NoValue,
                    err |-> WrapError("Error fetching", m, tk, RawError(mode, tk)) ]

\* The positional arguments with_retry passes on to the operation.
\* fetch_<method> calls with_retry(self._fetch_<method>_impl, ticker=ticker,
\* ...) (lines 114-117, 290-295, 634-639): with_retry binds ticker= to its
\* own keyword-only parameter (base.py line 159) and calls func(*args,
\* **kwargs) without it (line 185).
ForwardedArgs(via, tk) == IF via = "fetch" THEN << >> ELSE << tk >>

\* the end of fetch_<method>: it returns what with_retry returned and wraps
\* what with_retry raised (lines 118-127)
FetchEnd(m, tk, via) ==
    /\ fpc' = IF wpc' \in { "returned", "raised" } THEN wpc' ELSE "running"
    /\ f_result' = IF wpc' = "returned" THEN w_result' ELSE NoValue
    /\ f_raised' = IF wpc' # "raised" THEN NoError
                   ELSE IF via = "fetch"
                   THEN WrapError("Failed to fetch", m, tk, w_raised')
                   ELSE w_raised'
    /\ backoff_until' = IF wpc' = "backoff"
                        THEN now + sleeps'[Len(sleeps')] * TicksPerSecond
                        ELSE Never

\* fetch_<m>(tk) is called (via = "fetch"), or with_retry is given
\* _fetch_<m>_impl and tk directly (via = "impl"); mode is what the
\* provider is about to do.
FetchStart(m, tk, via, mode) ==
    /\ f_method' = m
    /\ f_ticker' = tk
    /\ f_via' = via
    /\ f_args' = ForwardedArgs(via, tk)
    /\ ipc' = "none"
    /\ provider_mode' = mode
    /\ raw_calls' = << >>
    /\ raw_log' = << >>
    /\ snapshots' = << >>
    /\ raw_started' = Never
    /\ UNCHANGED << db_session, db_rows, db_rollbacks, uuid_next >>
    /\ WithRetryCall(tk)
    /\ FetchEnd(m, tk, via)
    /\ UNCHANGED limVars

\* The first fetch on a provider.
FetchCall(m, tk, via, mode) ==
    /\ fpc = "idle"
    /\ FetchStart(m, tk, via, mode)

\* (mutation: the stub reports a ProviderError)
CompanyListError_Wrapped ==
    MakeError("ProviderError", "yfinance does not provide company list API",
              "yahoo_yfinance", NoTicker, NoError)

\* raise NotImplementedError(...) (lines 873-876)
CompanyListError ==
    MakeException("NotImplementedError",
                  "yfinance does not provide company list API. Use a different provider (FMP, AlphaVantage) for universe fetching.")

\* fetch_company_list(exchange, country, is_active_only) is awaited before
\* any fetch or after one returned: its whole body is the raise
\* (lines 850-876)
FetchCompanyList(exchange, country, is_active_only) ==
    /\ fpc \in { "idle", "returned" }
    /\ fpc' = "raised"
    /\ f_method' = "company_list"
    /\ f_via' = "stub"
    /\ f_args' = << exchange, country, IF is_active_only THEN "True" ELSE "False" >>
    /\ f_result' = NoValue
    /\ f_raised' = CompanyListError
    /\ UNCHANGED << f_ticker, ipc, provider_mode, raw_calls, raw_log, snapshots,
                    raw_started, backoff_until, db_session, db_rows,
                    db_rollbacks, uuid_next >>
    /\ UNCHANGED << limVars, retryVars >>

\* with_retry invokes the operation with arguments that miss the required
\* ticker: the call raises TypeError before the body runs (line 185)
ImplBindFails ==
    /\ fpc = "running" /\ wpc = "attempt" /\ ipc = "none"
    /\ f_args = << >>
    /\ HandleOutcome([ kind |-> "raise", value |-> NoValue,
                       err |-> MakeException("TypeError",
                                   << "missing", "ticker" >>) ])
    /\ FetchEnd(f_method, f_ticker, f_via)
    /\ UNCHANGED << f_method, f_ticker, f_via, f_args, ipc, provider_mode,
                    raw_calls, raw_log, snapshots, raw_started, db_session,
                    db_rows, db_rollbacks, uuid_next >>
    /\ UNCHANGED limVars

\* the implementation starts: await self.rate_limiter.acquire()
\* (lines 145, 330, 674)
ImplAcquire ==
    /\ fpc = "running" /\ wpc = "attempt" /\ ipc = "none"
    /\ f_args # << >>
    /\ AcquireCall(FetchTask)
    /\ ipc' = "acquire"
    /\ UNCHANGED << fpc, f_method, f_ticker, f_via, f_args, f_result,
                    f_raised, provider_mode, raw_calls, raw_log, snapshots,
                    raw_started, backoff_until, db_session, db_rows,
                    db_rollbacks, uuid_next >>
    /\ UNCHANGED retryVars

\* the limiter's sleep inside that acquire() is over
ImplAcquireWake ==
    /\ ipc = "acquire"
    /\ AcquireWake(FetchTask)
    /\ UNCHANGED << retryVars, fetchVars, regVars, batchVars, normVars >>

\* acquire() has returned: the raw call is handed to a worker thread
\* (await asyncio.to_thread(...), lines 149, 335, 678)
RawStart ==
    /\ ipc = "acquire"
    /\ tpc[FetchTask] = "idle"
    /\ ipc' = "raw"
    /\ raw_calls' = Append(raw_calls, f_args[1])
    /\ raw_log' = Append(raw_log, provider_mode)
    /\ raw_started' = now
    /\ UNCHANGED << fpc, f_method, f_ticker, f_via, f_args, f_result,
                    f_raised, provider_mode, snapshots, backoff_until,
                    db_session, db_rows, db_rollbacks, uuid_next >>
    /\ UNCHANGED << limVars, retryVars >>

\* the raw call comes back; the rest of the attempt runs and with_retry
\* handles what it did.  next is what the provider will do with the next
\* raw call.
RawReturn(next) ==
    /\ ipc = "raw"
    /\ provider_mode # "hang"
    /\ ipc' = "none"
    /\ raw_started' = Never
    /\ provider_mode' = next
    /\ LET logged == IF provider_mode \in { "ok", "unusable" }
                      THEN SnapshotsOf(f_method, f_args[1], provider_mode)
                      ELSE << >>
           escapes == logged # << >> /\ PersistFailureEscapes
           \* an escaping failure ends the attempt at the first snapshot
           kept == IF escapes THEN << logged[1] >> ELSE logged
       IN  /\ snapshots' = snapshots \o kept
           /\ db_rows' = IF db_session = "ok"
                          THEN db_rows \cup { kept[i].snapshot_id : i \in DOMAIN kept }
                          ELSE db_rows
           /\ uuid_next' = IF db_session = "ok" THEN uuid_next + Len(kept)
                            ELSE uuid_next
           /\ db_rollbacks' = IF db_session = "failing" /\ ~ escapes
                               THEN db_rollbacks + Len(kept)
                               ELSE db_rollbacks
           /\ IF escapes
              THEN HandleOutcome([ kind |-> "raise", value |-> NoValue,
                                   err |-> WrapError("Error fetching", f_method, f_args[1],
                                              MakeException("OperationalError",
                                                            << "commit failed" >>)) ])
              ELSE HandleOutcome(ImplOutcome(f_method, f_args[1], provider_mode))
    /\ UNCHANGED db_session
    /\ FetchEnd(f_method, f_ticker, f_via)
    /\ UNCHANGED << f_method, f_ticker, f_via, f_args, raw_calls, raw_log >>
    /\ UNCHANGED limVars

\* with_retry's asyncio.sleep(delay) is over (line 217)
FetchBackoffWake ==
    /\ wpc = "backoff"
    /\ now >= backoff_until
    /\ BackoffWake
    /\ backoff_until' = Never
    /\ UNCHANGED << fpc, f_method, f_ticker, f_via, f_args, f_result,
                    f_raised, ipc, provider_mode, raw_calls, raw_log,
                    snapshots, raw_started, db_session, db_rows,
                    db_rollbacks, uuid_next >>
    /\ UNCHANGED limVars

\* Time passes while the fetch waits: in the limiter's sleep, in the
\* backoff sleep, or for the raw call.
FetchTick ==
    /\ now < FetchHorizon
    /\ \/ ipc = "acquire" /\ tpc[FetchTask] = "sleeping" /\ now < wake_at[FetchTask]
       \/ wpc = "backoff" /\ now < backoff_until
       \/ ipc = "raw" /\ (provider_mode = "hang" \/ now < raw_started + RawMaxTicks)
    /\ now' = now + 1
    /\ UNCHANGED << max_requests, time_window_seconds, request_times,
                    lock_owner, lock_waiters, tpc, wake_at, remaining, acq >>
    /\ UNCHANGED << retryVars, fetchVars, regVars, batchVars, normVars >>

\* YahooYFinanceProvider.__init__ (lines 71-82), before any fetch
FetchInit ==
    /\ fpc = "idle"
    /\ f_method = "company_profile"
    /\ f_ticker = "AAPL"
    /\ f_via = "fetch"
    /\ f_args = << >>
    /\ f_result = NoValue
    /\ f_raised = NoError
    /\ ipc = "none"
    /\ provider_mode = "ok"
    /\ raw_calls = << >>
    /\ raw_log = << >>
    /\ snapshots = << >>
    /\ raw_started = Never
    /\ backoff_until = Never
    /\ db_session \in DbSessions
    /\ db_rows = { }
    /\ db_rollbacks = 0
    /\ uuid_next = 0

\* ------------------------------------------------------------------------
\* YahooYFinanceProvider: batch fetches (providers/yahoo_yfinance.py)
\* ------------------------------------------------------------------------
\* what the provider may be about to do when a ticker's fetch starts
BatchModes == { "ok", "error" }

\* the ticker lists of up to MaxBatch tickers
RECURSIVE TickerLists(_)
TickerLists(n) ==
    IF n = 0 THEN { << >> }
    ELSE LET shorter == TickerLists(n - 1)
         IN  shorter \cup { Append(l, tk) : l \in { x \in shorter : Len(x) = n - 1 },
                                              tk \in FetchTickers }

\* how the fetch that just ended ended
FetchOutcome ==
    [ kind |-> fpc, value |-> IF fpc = "returned" THEN f_result ELSE NoValue ]

\* (mutation: a ticker whose fetch raised gets no entry)
BatchRecord_SkipFailed(results, m, tk, out) ==
    IF out.kind = "returned"
    THEN [ x \in DOMAIN results \cup { tk } |-> IF x = tk THEN out.value ELSE results[x] ]
    ELSE results

\* results[ticker] = <the value fetched>, or in the except clause
\* results[ticker] = None / [] (lines 903-914, 951-964, 1001-1014)
BatchRecord(results, m, tk, out) ==
    [ x \in DOMAIN results \cup { tk } |->
        IF x # tk THEN results[x]
        ELSE IF out.kind = "returned" THEN out.value ELSE Nothing(m) ]

\* (mutation: the loop ends at the first ticker whose fetch raised)
BatchContinues_StopAtFailure(out) == out.kind = "returned"

\* whether the loop goes on to the next ticker after a fetch ended that
\* way: the except clause swallows the error (lines 912-914)
BatchContinues(out) == TRUE

\* fetch_batch_<m>(tickers) is called: the loop starts the fetch of the
\* first ticker, or returns the empty dict for no tickers.
\* fetch_<method> forwards no ticker to the implementation, so the body of
\* the implementation is never entered during a batch.
BatchCall(m, tickers, mode) ==
    /\ b_pc = "idle" /\ fpc = "idle"
    /\ b_method' = m
    /\ b_tickers' = tickers
    /\ b_results' = << >>
    /\ b_outcomes' = << >>
    /\ IF tickers = << >>
       THEN /\ b_pc' = "done"
            /\ b_idx' = 0
            /\ b_started' = << >>
            /\ UNCHANGED << retryVars, fetchVars >>
       ELSE /\ b_pc' = "running"
            /\ b_idx' = 1
            /\ b_started' = << tickers[1] >>
            /\ FetchStart(m, tickers[1], "fetch", mode)
    /\ UNCHANGED limVars

\* The fetch of the current ticker has returned or raised: its entry is
\* stored and the loop starts the fetch of the next ticker, or the batch
\* returns the dict (lines 902-921).
BatchAdvance(mode) ==
    /\ b_pc = "running"
    /\ fpc \in { "returned", "raised" }
    /\ b_results' = BatchRecord(b_results, b_method, b_tickers[b_idx], FetchOutcome)
    /\ b_outcomes' = Append(b_outcomes, FetchOutcome)
    /\ IF b_idx < Len(b_tickers) /\ BatchContinues(FetchOutcome)
       THEN /\ b_idx' = b_idx + 1
            /\ b_started' = Append(b_started, b_tickers[b_idx + 1])
            /\ b_pc' = "running"
            /\ FetchStart(b_method, b_tickers[b_idx + 1], "fetch", mode)
       ELSE /\ b_pc' = "done"
            /\ UNCHANGED << b_idx, b_started >>
            /\ UNCHANGED << retryVars, fetchVars >>
    /\ UNCHANGED << b_method, b_tickers >>
    /\ UNCHANGED limVars

\* no batch call has been made
BatchInit ==
    /\ b_pc = "idle"
    /\ b_method = "company_profile"
    /\ b_tickers = << >>
    /\ b_idx = 0
    /\ b_results = << >>
    /\ b_started = << >>
    /\ b_outcomes = << >>

\* ------------------------------------------------------------------------
\* YahooYFinanceProvider: normalization (providers/yahoo_yfinance.py)
\* ------------------------------------------------------------------------
\* Optional[float] values: None, a number, and float("nan")
PyNone == [ kind |-> "None", v |-> 0 ]
FloatOf(n) == [ kind |-> "float", v |-> n ]
NaN == [ kind |-> "nan", v |-> 0 ]

\* the period-end timestamps that occur as columns (yyyymmdd): two of them
\* lie in the same calendar year
Timestamps == { 20221231, 20230331, 20231231 }

\* a column label that is no timestamp (text, or NaT): reading its year
\* raises inside the loop body (lines 470-475)
NotATimestamp == 0

\* Timestamp.date()
ToDate(ts) ==
    [ year |-> ts \div 10000, month |-> (ts \div 100) % 100, day |-> ts % 100 ]

\* the canonical field names _normalize_financial_statements asks for, by
\* DTO field and raw table (lines 488-513)
StatementFields ==
    << [ field |-> "revenue", table |-> "income", name |-> "Total Revenue" ],
       [ field |-> "gross_profit", table |-> "income", name |-> "Gross Profit" ],
       [ field |-> "operating_income", table |-> "income", name |-> "Operating Income" ],
       [ field |-> "net_income", table |-> "income", name |-> "Net Income" ],
       [ field |-> "eps_diluted", table |-> "income", name |-> "Diluted EPS" ],
       [ field |-> "total_assets", table |-> "balance", name |-> "Total Assets" ],
       [ field |-> "total_liabilities", table |-> "balance",
         name |-> "Total Liabilities Net Minority Interest" ],
       [ field |-> "shareholders_equity", table |-> "balance",
         name |-> "Stockholders Equity" ],
       [ field |-> "current_assets", table |-> "balance", name |-> "Current Assets" ],
       [ field |-> "current_liabilities", table |-> "balance",
         name |-> "Current Liabilities" ],
       [ field |-> "long_term_debt", table |-> "balance", name |-> "Long Term Debt" ],
       [ field |-> "operating_cash_flow", table |-> "cashflow",
         name |-> "Operating Cash Flow" ],
       [ field |-> "capital_expenditure", table |-> "cashflow",
         name |-> "Capital Expenditure" ],
       [ field |-> "free_cash_flow", table |-> "cashflow", name |-> "Free Cash Flow" ] >>

TableNames == { "income", "balance", "cashflow" }
DtoFields == { StatementFields[i].field : i \in DOMAIN StatementFields }
FieldsOf(table) ==
    { StatementFields[i].field : i \in { j \in DOMAIN StatementFields :
                                           StatementFields[j].table = table } }
ExactNames(table) ==
    { StatementFields[i].name : i \in { j \in DOMAIN StatementFields :
                                          StatementFields[j].table = table } }

\* field_alternatives (lines 568-588)
FieldAlternatives(field_name) ==
    CASE field_name = "Total Revenue" -> << "Total Revenue", "Revenue" >>
      [] field_name = "Gross Profit" -> << "Gross Profit" >>
      [] field_name = "Operating Income" -> << "Operating Income", "EBIT" >>
      [] field_name = "Net Income" ->
            << "Net Income", "Net Income Common Stockholders" >>
      [] field_name = "Diluted EPS" -> << "Diluted EPS", "Basic EPS" >>
      [] field_name = "Total Assets" -> << "Total Assets" >>
      [] field_name = "Total Liabilities Net Minority Interest" ->
            << "Total Liabilities Net Minority Interest", "Total Liabilities" >>
      [] field_name = "Stockholders Equity" ->
            << "Stockholders Equity", "Total Equity Gross Minority Interest",
               "Common Stock Equity" >>
      [] field_name = "Current Assets" -> << "Current Assets" >>
      [] field_name = "Current Liabilities" -> << "Current Liabilities" >>
      [] field_name = "Long Term Debt" ->
            << "Long Term Debt", "Long Term Debt And Capital Lease Obligation" >>
      [] field_name = "Operating Cash Flow" ->
            << "Operating Cash Flow", "Total Cash From Operating Activities" >>
      [] field_name = "Capital Expenditure" ->
            << "Capital Expenditure", "Capital Expenditures" >>
      [] field_name = "Free Cash Flow" -> << "Free Cash Flow" >>
      [] OTHER -> << >>

\* the row names that occur in the raw tables, in a fixed order that gives
\* each the number its cells carry
RowNames ==
    << "Total Revenue", "Revenue", "Gross Profit", "Operating Income", "EBIT",
       "Net Income", "Net Income Common Stockholders", "Diluted EPS", "Basic EPS",
       "Total Assets", "Total Liabilities Net Minority Interest",
       "Total Liabilities", "Stockholders Equity",
       "Total Equity Gross Minority Interest", "Common Stock Equity",
       "Current Assets", "Current Liabilities", "Long Term Debt",
       "Long Term Debt And Capital Lease Obligation", "Operating Cash Flow",
       "Total Cash From Operating Activities", "Capital Expenditure",
       "Capital Expenditures", "Free Cash Flow", "Tax Provision" >>
RowCode(row) == CHOOSE i \in DOMAIN RowNames : RowNames[i] = row

\* A raw table: None, or a DataFrame with period-end columns, row names
\* (index) and cells. The cells of one table are all of one kind: numbers
\* (each its own), None, numpy nan, or text.
NoFrame == [ columns |-> { }, index |-> { }, cells |-> "absent" ]
CellKinds == { "num", "none", "nan", "text" }
Frame(columns, index, cells) ==
    [ columns |-> columns, index |-> index, cells |-> cells ]
CellNumber(row, col) == RowCode(row) * 1000 + ((col \div 100) % 1000)

\* df is None or df.empty
IsEmpty(df) == df = NoFrame \/ df.columns = { } \/ df.index = { }

\* float(value) if value is not None and not (hasattr(value, 'isna') and
\* value.isna()) else None (line 565); "raise" where float() raises
CellToFloat(df, row, col) ==
    CASE df.cells = "num" -> FloatOf(CellNumber(row, col))
      [] df.cells = "none" -> PyNone
      [] df.cells = "nan" -> NaN
      [] OTHER -> [ kind |-> "raise", v |-> 0 ]

\* (mutation: the last alternative the table has is taken)
FirstAlternative_Last(df, field_name) ==
    LET alts == FieldAlternatives(field_name)
        hits == { i \in DOMAIN alts : alts[i] \in df.index }
    IN  IF hits = { } THEN ""
        ELSE alts[CHOOSE i \in hits : \A j \in hits : j <= i]

\* for alt_name in field_alternatives.get(field_name, []): if alt_name in
\* df.index (lines 591-592); "" when the loop ends without a hit
FirstAlternative(df, field_name) ==
    LET alts == FieldAlternatives(field_name)
        hits == { i \in DOMAIN alts : alts[i] \in df.index }
    IN  IF hits = { } THEN ""
        ELSE alts[CHOOSE i \in hits : \A j \in hits : i <= j]

\* the row _get_financial_field reads ("" for none): the exact name if
\* the index has it, else the first alternative (lines 563, 591)
RowRead(df, field_name) ==
    IF field_name \in df.index THEN field_name ELSE FirstAlternative(df, field_name)

\* _get_financial_field(df, fiscal_date, field_name) (lines 552-598)
GetFinancialField(df, fiscal_date, field_name) ==
    IF IsEmpty(df) THEN PyNone
    ELSE IF fiscal_date \notin df.columns THEN PyNone
    ELSE LET row == RowRead(df, field_name)
             value == CellToFloat(df, row, fiscal_date)
         IN  IF row = "" THEN PyNone
             ELSE IF value.kind = "raise" THEN PyNone  \* except Exception
             ELSE value

\* (mutation: only the periods every table has are kept)
FiscalDates_Intersection(data) ==
    { ts \in Timestamps : \A t \in TableNames :
                             ~ IsEmpty(data[t]) /\ ts \in data[t].columns }

\* fiscal_dates (lines 451-462): the columns of the tables that are not
\* None and not empty
FiscalDates(data) ==
    UNION { data[t].columns : t \in { u \in TableNames : ~ IsEmpty(data[u]) } }

\* (mutation: the bounds are exclusive)
YearKept_Exclusive(fiscal_year, start_year, end_year) ==
    /\ ~ (start_year # 0 /\ fiscal_year <= start_year)
    /\ ~ (end_year # 0 /\ fiscal_year >= end_year)

\* the year filter (lines 476-479); 0 stands for None, which is as falsy
YearKept(fiscal_year, start_year, end_year) ==
    /\ ~ (start_year # 0 /\ fiscal_year < start_year)
    /\ ~ (end_year # 0 /\ fiscal_year > end_year)

\* FinancialStatementDTO(...) for one period (lines 482-514)
BuildStatement(ticker, data, fiscal_date) ==
    [ ticker |-> Upper(ticker),
      fiscal_year |-> ToDate(fiscal_date).year,
      fiscal_year_end |-> ToDate(fiscal_date),
      fields |-> [ f \in DtoFields |->
                     LET spec == StatementFields[CHOOSE i \in DOMAIN StatementFields :
                                                   StatementFields[i].field = f]
                     IN  GetFinancialField(data[spec.table], fiscal_date, spec.name) ] ]

\* (mutation: ascending sort)
RECURSIVE SortByYearDesc_Ascending(_)
SortByYearDesc_Ascending(statements) ==
    IF statements = << >> THEN << >>
    ELSE LET n == Len(statements)
             rest == SortByYearDesc_Ascending(SubSeq(statements, 1, n - 1))
             x == statements[n]
             k == Cardinality({ i \in DOMAIN rest : rest[i].fiscal_year <= x.fiscal_year })
         IN  SubSeq(rest, 1, k) \o << x >> \o SubSeq(rest, k + 1, Len(rest))

\* statements.sort(key=lambda s: s.fiscal_year, reverse=True) (line 526):
\* stable, equal years keep their order
RECURSIVE SortByYearDesc(_)
SortByYearDesc(statements) ==
    IF statements = << >> THEN << >>
    ELSE LET n == Len(statements)
             rest == SortByYearDesc(SubSeq(statements, 1, n - 1))
             x == statements[n]
             k == Cardinality({ i \in DOMAIN rest : rest[i].fiscal_year >= x.fiscal_year })
         IN  SubSeq(rest, 1, k) \o << x >> \o SubSeq(rest, k + 1, Len(rest))

\* the orders a set may be iterated in
Orders(S) ==
    { o \in [ 1 .. Cardinality(S) -> S ] : \A i, j \in DOMAIN o : i # j => o[i] # o[j] }

\* the loop over fiscal_dates in the order `order` (lines 466-523)
RECURSIVE LoopStatements(_, _, _, _, _)
LoopStatements(ticker, data, start_year, end_year, order) ==
    IF order = << >> THEN << >>
    ELSE LET fiscal_date == Head(order)
             rest == LoopStatements(ticker, data, start_year, end_year, Tail(order))
         IN  IF fiscal_date = NotATimestamp THEN rest  \* except Exception: continue
             ELSE IF YearKept(ToDate(fiscal_date).year, start_year, end_year)
             THEN << BuildStatement(ticker, data, fiscal_date) >> \o rest
             ELSE rest

\* _normalize_financial_statements(ticker, financials_data, start_year,
\* end_year) (lines 441-528), the set being iterated in the order `order`
NormalizeFinancialStatements(ticker, data, start_year, end_year, order) ==
    IF \A t \in TableNames : IsEmpty(data[t]) THEN << >>
    ELSE IF FiscalDates(data) = { } THEN << >>
    ELSE SortByYearDesc(LoopStatements(ticker, data, start_year, end_year, order))

\* the raw tables given to the statement normalizer: None, a table with
\* columns and no rows, or a table of numbers with any of the periods as
\* columns and the rows the normalizer asks for; the income statement may
\* also have a column whose label is no timestamp
StatementFrames(table) ==
    { NoFrame, Frame(Timestamps, { }, "num") }
        \cup { Frame(c, ExactNames(table), "num") : c \in SUBSET Timestamps }
        \cup (IF table = "income"
              THEN { Frame(c \cup { NotATimestamp }, ExactNames(table), "num") :
                       c \in SUBSET { 20221231, 20231231 } }
              ELSE { })
YearChoices == { 0, 2022, 2023 }

\* _normalize_financial_statements is called
NormalizeStatementsCall(ticker, data, start_year, end_year) ==
    /\ n_op = "none"
    /\ \E order \in Orders(FiscalDates(data)) :
          st_out' = NormalizeFinancialStatements(ticker, data, start_year,
                                                 end_year, order)
    /\ st_in' = [ ticker |-> ticker, data |-> data, start_year |-> start_year,
                  end_year |-> end_year ]
    /\ n_op' = "statements"
    /\ UNCHANGED << ff_in, ff_out, cp_in, cp_out, ph_in, ph_out >>

\* the tables, periods and field names given to _get_financial_field: a
\* table is None or has some of these rows, no column, the period asked
\* for or not, and cells of one kind
FieldRows ==
    { "Stockholders Equity", "Total Equity Gross Minority Interest",
      "Common Stock Equity", "Total Revenue", "Revenue", "Tax Provision" }
FieldFrames ==
    { NoFrame } \cup { Frame(c, i, k) : c \in { { }, { 20231231 }, { 20221231, 20231231 } },
                                        i \in SUBSET FieldRows, k \in CellKinds }
FieldNames == { "Stockholders Equity", "Total Revenue", "Gross Profit", "Dividends Paid" }

\* _get_financial_field is called
GetFinancialFieldCall(df, fiscal_date, field_name) ==
    /\ n_op = "none"
    /\ ff_in' = [ df |-> df, fiscal_date |-> fiscal_date, field_name |-> field_name ]
    /\ ff_out' = GetFinancialField(df, fiscal_date, field_name)
    /\ n_op' = "field"
    /\ UNCHANGED << st_in, st_out, cp_in, cp_out, ph_in, ph_out >>

\* The raw info dict of a ticker: the keys it has, those of the two name
\* keys whose value is the empty string, and whether its market cap is 0.
InfoKeys ==
    { "longName", "shortName", "sector", "industry", "country", "currency",
      "financialCurrency", "marketCap", "exchange" }
Infos ==
    [ keys : SUBSET InfoKeys, blank : SUBSET { "longName", "shortName" },
      zero_cap : BOOLEAN ]

\* None where a str is expected
NoneStr == "<None>"

\* info.get(key) for the keys that hold text
InfoGet(info, key) ==
    IF key \notin info.keys THEN NoneStr
    ELSE IF key \in info.blank THEN ""
    ELSE CASE key = "longName" -> "Apple Inc."
           [] key = "shortName" -> "Apple"
           [] key = "sector" -> "Technology"
           [] key = "industry" -> "Consumer Electronics"
           [] key = "country" -> "United States"
           [] key = "currency" -> "USD"
           [] key = "financialCurrency" -> "EUR"
           [] key = "exchange" -> "NMS"

\* a or b
Or(a, b) == IF a \notin { NoneStr, "" } THEN a ELSE b

\* (mutation: info.get('marketCap', 0))
MarketCap_DefaultZero(info) ==
    IF "marketCap" \notin info.keys \/ info.zero_cap THEN FloatOf(0)
    ELSE FloatOf(3000)

\* info.get('marketCap') as the Optional[float] of the DTO (line 250)
MarketCap(info) ==
    IF "marketCap" \notin info.keys THEN PyNone
    ELSE IF info.zero_cap THEN FloatOf(0) ELSE FloatOf(3000)

\* what _normalize_company_profile returns for no profile: None
NoProfile ==
    [ is_none |-> TRUE, ticker |-> "", name |-> NoneStr, legal_name |-> NoneStr,
      sector |-> NoneStr, industry |-> NoneStr, country |-> NoneStr,
      currency |-> NoneStr, market_cap |-> PyNone, exchange |-> NoneStr ]

\* _normalize_company_profile(ticker, info) (lines 235-252)
NormalizeCompanyProfile(ticker, info) ==
    LET name == Or(InfoGet(info, "longName"), InfoGet(info, "shortName")) IN
    IF name \in { NoneStr, "" } THEN NoProfile
    ELSE [ is_none |-> FALSE,
           ticker |-> Upper(ticker),
           name |-> name,
           legal_name |-> InfoGet(info, "longName"),
           sector |-> InfoGet(info, "sector"),
           industry |-> InfoGet(info, "industry"),
           country |-> InfoGet(info, "country"),
           currency |-> Or(InfoGet(info, "currency"),
                           InfoGet(info, "financialCurrency")),
           market_cap |-> MarketCap(info),
           exchange |-> InfoGet(info, "exchange") ]

\* _normalize_company_profile is called
NormalizeProfileCall(ticker, info) ==
    /\ n_op = "none"
    /\ cp_in' = [ ticker |-> ticker, info |-> info ]
    /\ cp_out' = NormalizeCompanyProfile(ticker, info)
    /\ n_op' = "profile"
    /\ UNCHANGED << st_in, st_out, ff_in, ff_out, ph_in, ph_out >>

\* The raw price table: None, or a DataFrame whose rows, in source order,
\* have a timestamp as index and cells under 'Close' and under the other
\* columns ('Open' standing for them): a number, None, or text.
NoHistory == [ none |-> TRUE, rows |-> << >> ]
HistoryFrame(rows) == [ none |-> FALSE, rows |-> rows ]
PriceDates == { 20240102, 20240103, 20240105 }
PriceRows ==
    [ date_idx : PriceDates, close : { "num", "none", "text" },
      open : { "num", "none", "text" } ]

\* a date comes before another
DateLess(a, b) ==
    \/ a.year < b.year
    \/ a.year = b.year /\ a.month < b.month
    \/ a.year = b.year /\ a.month = b.month /\ a.day < b.day

\* float(row[c]) if c in row and row[c] is not None else None (lines
\* 815-820); "raise" where float() raises
PriceCell(kind, n) ==
    CASE kind = "num" -> FloatOf(n)
      [] kind = "none" -> PyNone
      [] OTHER -> [ kind |-> "raise", v |-> 0 ]

\* the body of the loop for one row (lines 803-823): the data point, or
\* the failure the except clause catches (float() raising, or the DTO
\* refusing a close of None)
ParseRow(ticker, row) ==
    LET open == PriceCell(row.open, row.date_idx % 100)
        close == PriceCell(row.close, 100 + (row.date_idx % 100))
    IN  [ ok |-> open.kind # "raise" /\ close.kind = "float",
          point |-> [ ticker |-> Upper(ticker), date |-> ToDate(row.date_idx),
                      open |-> IF open.kind = "raise" THEN PyNone ELSE open,
                      close |-> IF close.kind = "float" THEN close ELSE PyNone ] ]

\* (mutation: the first row that fails ends the loop)
RECURSIVE LoopRows_StopAtFailure(_, _)
LoopRows_StopAtFailure(ticker, rows) ==
    IF rows = << >> THEN << >>
    ELSE LET parsed == ParseRow(ticker, Head(rows))
         IN  IF parsed.ok
             THEN << parsed.point >> \o LoopRows_StopAtFailure(ticker, Tail(rows))
             ELSE << >>

\* for date_idx, row in history_df.iterrows(): ... (lines 801-830)
RECURSIVE LoopRows(_, _)
LoopRows(ticker, rows) ==
    IF rows = << >> THEN << >>
    ELSE LET parsed == ParseRow(ticker, Head(rows))
             rest == LoopRows(ticker, Tail(rows))
         IN  IF parsed.ok THEN << parsed.point >> \o rest ELSE rest

\* (mutation: the points stay in source order)
SortByDate_SourceOrder(points) == points

\* data_points.sort(key=lambda dp: dp.date) (line 836): stable
RECURSIVE SortByDate(_)
SortByDate(points) ==
    IF points = << >> THEN << >>
    ELSE LET n == Len(points)
             rest == SortByDate(SubSeq(points, 1, n - 1))
             x == points[n]
             k == Cardinality({ i \in DOMAIN rest : ~ DateLess(x.date, rest[i].date) })
         IN  SubSeq(rest, 1, k) \o << x >> \o SubSeq(rest, k + 1, Len(rest))

\* what _normalize_price_history returns for no history: None
NoPriceHistory ==
    [ is_none |-> TRUE, ticker |-> "", start_date |-> ToDate(0),
      end_date |-> ToDate(0), data_points |-> << >> ]

\* _normalize_price_history(ticker, history_df, ...) (lines 796-844)
NormalizePriceHistory(ticker, history_df) ==
    IF history_df.none \/ history_df.rows = << >> THEN NoPriceHistory
    ELSE LET data_points == SortByDate(LoopRows(ticker, history_df.rows))
         IN  IF data_points = << >> THEN NoPriceHistory
             ELSE [ is_none |-> FALSE, ticker |-> Upper(ticker),
                    start_date |-> data_points[1].date,
                    end_date |-> data_points[Len(data_points)].date,
                    data_points |-> data_points ]

\* the row sequences of up to n rows
RECURSIVE RowLists(_)
RowLists(n) ==
    IF n = 0 THEN { << >> }
    ELSE LET shorter == RowLists(n - 1)
         IN  shorter \cup { Append(l, r) : l \in { x \in shorter : Len(x) = n - 1 },
                                              r \in PriceRows }

\* _normalize_price_history is called
NormalizePriceCall(ticker, history_df) ==
    /\ n_op = "none"
    /\ ph_in' = [ ticker |-> ticker, history_df |-> history_df ]
    /\ ph_out' = NormalizePriceHistory(ticker, history_df)
    /\ n_op' = "price"
    /\ UNCHANGED << st_in, st_out, ff_in, ff_out, cp_in, cp_out >>

\* no normalizer has been called
NormalizeInit ==
    /\ n_op = "none"
    /\ st_in = [ ticker |-> "", data |-> [ t \in TableNames |-> NoFrame ],
                 start_year |-> 0, end_year |-> 0 ]
    /\ st_out = << >>
    /\ ff_in = [ df |-> NoFrame, fiscal_date |-> 0, field_name |-> "" ]
    /\ ff_out = PyNone
    /\ cp_in = [ ticker |-> "", info |-> [ keys |-> { }, blank |-> { },
                                            zero_cap |-> FALSE ] ]
    /\ cp_out = NoProfile
    /\ ph_in = [ ticker |-> "", history_df |-> NoHistory ]
    /\ ph_out = NoPriceHistory

\* ------------------------------------------------------------------------
\* ProviderRegistry (providers/registry.py)
\* ------------------------------------------------------------------------
\* provider_type values: the three of ProviderType and one outside it
ProviderTypes == { "company", "fundamentals", "price" }
RequestTypes == ProviderTypes \cup { "bond" }

\* provider names, with the code points Python compares them by
ProviderNames == { "yahoo", "Zeta" }
CodePoints(name) ==
    CASE name = "yahoo" -> << 121, 97, 104, 111, 111 >>
      [] name = "Zeta" -> << 90, 101, 116, 97 >>
      [] OTHER -> << >>

\* str.__lt__: the first differing code point decides, a proper prefix
\* is smaller
RECURSIVE SeqLess(_, _)
SeqLess(a, b) ==
    IF b = << >> THEN FALSE
    ELSE IF a = << >> THEN TRUE
    ELSE IF Head(a) # Head(b) THEN Head(a) < Head(b)
    ELSE SeqLess(Tail(a), Tail(b))

StrLess(x, y) == SeqLess(CodePoints(x), CodePoints(y))

\* (mutation: sorted(names, reverse=True))
RECURSIVE Sorted_Descending(_)
Sorted_Descending(S) ==
    IF S = { } THEN << >>
    ELSE LET most == CHOOSE x \in S : \A y \in S \ { x } : StrLess(y, x)
         IN  << most >> \o Sorted_Descending(S \ { most })

\* sorted(names)
RECURSIVE Sorted(_)
Sorted(S) ==
    IF S = { } THEN << >>
    ELSE LET least == CHOOSE x \in S : \A y \in S \ { x } : StrLess(x, y)
         IN  << least >> \o Sorted(S \ { least })

\* the classes offered for registration and the interfaces each inherits
NoClass == "<absent>"
ProviderClasses == { "MockAllProvider", "MockFundamentalsProvider", "PlainObject" }
Implements(cls) ==
    CASE cls = "MockAllProvider" -> { "company", "fundamentals", "price" }
      [] cls = "MockFundamentalsProvider" -> { "fundamentals" }
      [] OTHER -> { }

\* what r_call holds after a call that registers nothing
NoRegistration == [ arg |-> NoClass, old |-> NoClass ]

\* _get_base_class_for_type (lines 190-197)
BaseClassName(ty) ==
    CASE ty = "company" -> "CompanyUniverseProvider"
      [] ty = "fundamentals" -> "FundamentalsProvider"
      [] ty = "price" -> "PriceHistoryProvider"

RegistryKeys == RequestTypes \X ProviderNames

\* key in self._providers
Registered(ty, name) == providers[<< ty, name >>] # NoClass

\* (mutation: the names of every type are listed)
ListProviders_AllTypes(ty) ==
    Sorted({ name \in ProviderNames : \E t2 \in RequestTypes : Registered(t2, name) })

\* list_providers(provider_type) (lines 162-165)
ListProviders(ty) ==
    Sorted({ name \in ProviderNames : Registered(ty, name) })

\* the pieces of an error text: literal text, and f"'{p}'", a value
\* between quotes
Word(x) == [ quoted |-> FALSE, s |-> x ]
Quoted(x) == [ quoted |-> TRUE, s |-> x ]

\* what a registry call leaves behind: its arguments, whether it returned
\* or raised, the class of the error or of the instance returned, the
\* error text, the list returned and the number of the instance returned
RegistryResult(op, ty, name, kind, cls, text, names, instance) ==
    [ op |-> op, type |-> ty, name |-> name, kind |-> kind, cls |-> cls,
      text |-> text, names |-> names, instance |-> instance ]

\* The text of the KeyError of get_provider (lines 133-138)
MissingProviderText(ty, name) ==
    LET available == ListProviders(ty) IN
    << Word("No provider registered for type"), Quoted(ty), Word("with name"),
       Quoted(name), Word("Available providers:") >>
    \o (IF available # << >>
        THEN [ i \in DOMAIN available |-> Quoted(available[i]) ]
        ELSE << Word("none") >>)

\* (mutation: the class is stored before it is validated)
RegisterProvider_StoresFirst(ty, name, cls) ==
    /\ r_call' = [ arg |-> cls, old |-> providers[<< ty, name >>] ]
    /\ providers' = [ providers EXCEPT ![<< ty, name >>] = cls ]
    /\ r_last' = IF ty \notin ProviderTypes
                 THEN RegistryResult("register_provider", ty, name, "raise",
                               "ValueError",
                               << Word("Unknown provider type:"), Word(ty) >>,
                               << >>, 0)
                 ELSE IF ty \notin Implements(cls)
                 THEN RegistryResult("register_provider", ty, name, "raise",
                               "TypeError",
                               << Word("Provider class"), Word(cls),
                                  Word("must inherit from"), Word(BaseClassName(ty)),
                                  Word("for provider_type"), Quoted(ty) >>,
                               << >>, 0)
                 ELSE RegistryResult("register_provider", ty, name, "return",
                               "None", << >>, << >>, 0)
    /\ UNCHANGED << instances, r_handed >>

\* (mutation: dict.setdefault, a key that is present keeps its class)
RegisterProvider_KeepsFirst(ty, name, cls) ==
    /\ ty \in ProviderTypes /\ ty \in Implements(cls)
    /\ r_call' = [ arg |-> cls, old |-> providers[<< ty, name >>] ]
    /\ providers' = IF Registered(ty, name) THEN providers
                    ELSE [ providers EXCEPT ![<< ty, name >>] = cls ]
    /\ r_last' = RegistryResult("register_provider", ty, name, "return",
                               "None", << >>, << >>, 0)
    /\ UNCHANGED << instances, r_handed >>

\* register_provider(provider_type, name, provider_class) (lines 92-100)
RegisterProvider(ty, name, cls) ==
    /\ r_call' = [ arg |-> cls, old |-> providers[<< ty, name >>] ]
    /\ IF ty \notin ProviderTypes
       THEN /\ r_last' = RegistryResult("register_provider", ty, name, "raise",
                               "ValueError",
                               << Word("Unknown provider type:"), Word(ty) >>,
                               << >>, 0)
            /\ UNCHANGED providers
       ELSE IF ty \notin Implements(cls)
       THEN /\ r_last' = RegistryResult("register_provider", ty, name, "raise",
                               "TypeError",
                               << Word("Provider class"), Word(cls),
                                  Word("must inherit from"), Word(BaseClassName(ty)),
                                  Word("for provider_type"), Quoted(ty) >>,
                               << >>, 0)
            /\ UNCHANGED providers
       ELSE /\ providers' = [ providers EXCEPT ![<< ty, name >>] = cls ]
            /\ r_last' = RegistryResult("register_provider", ty, name, "return",
                               "None", << >>, << >>, 0)
    /\ UNCHANGED << instances, r_handed >>

\* (mutation: the instance created first is kept and returned again)
GetProvider_Cached(ty, name) ==
    /\ Registered(ty, name)
    /\ instances < MaxInstances
    /\ instances' = IF instances = 0 THEN 1 ELSE instances
    /\ r_last' = RegistryResult("get_provider", ty, name, "return",
                               providers[<< ty, name >>], << >>, << >>, 1)
    /\ r_handed' = Append(r_handed, 1)
    /\ r_call' = NoRegistration
    /\ UNCHANGED providers

\* get_provider(provider_type, name) (lines 131-141)
GetProvider(ty, name) ==
    /\ IF ~ Registered(ty, name)
       THEN /\ r_last' = RegistryResult("get_provider", ty, name, "raise",
                               "KeyError", MissingProviderText(ty, name),
                               << >>, 0)
            /\ UNCHANGED << instances, r_handed >>
       ELSE /\ instances < MaxInstances
            /\ instances' = instances + 1
            /\ r_last' = RegistryResult("get_provider", ty, name, "return",
                               providers[<< ty, name >>], << >>, << >>,
                               instances + 1)
            /\ r_handed' = Append(r_handed, instances + 1)
    /\ r_call' = NoRegistration
    /\ UNCHANGED providers

\* list_providers(provider_type) is called
ListProvidersCall(ty) ==
    /\ r_last' = RegistryResult("list_providers", ty, "", "return", "list",
                               << >>, ListProviders(ty), 0)
    /\ r_call' = NoRegistration
    /\ UNCHANGED << providers, instances, r_handed >>

\* ProviderRegistry.__init__ (line 63)
RegistryInit ==
    /\ providers = [ k \in RegistryKeys |-> NoClass ]
    /\ instances = 0
    /\ r_last = RegistryResult("none", "", "", "return", "None", << >>, << >>, 0)
    /\ r_call = NoRegistration
    /\ r_handed = << >>
    /\ registries = << >>
    /\ registry_cache = 0
    /\ registry_refs = << >>

\* self._providers = {} (line 63)
EmptyProviders == [ k \in RegistryKeys |-> NoClass ]

\* (mutation: without @lru_cache every call constructs a registry)
CacheHit_NoCache == FALSE

\* lru_cache holds the result of the first call (line 200)
CacheHit == registry_cache # 0

\* get_provider_registry() (lines 200-215)
GetProviderRegistry ==
    /\ Len(registry_refs) < MaxRefs
    /\ IF CacheHit
       THEN /\ registry_refs' = Append(registry_refs, registry_cache)
            /\ UNCHANGED << registries, registry_cache >>
       ELSE /\ Len(registries) < MaxRegistries
            /\ registries' = Append(registries, EmptyProviders)
            /\ registry_cache' = Len(registries) + 1
            /\ registry_refs' = Append(registry_refs, Len(registries) + 1)
    /\ r_last' = RegistryResult("get_provider_registry", "", "", "return",
                               "ProviderRegistry", << >>, << >>, 0)
    /\ r_call' = NoRegistration
    /\ UNCHANGED << providers, instances, r_handed >>

\* ProviderRegistry() (lines 61-63)
ConstructRegistry ==
    /\ Len(registries) < MaxRegistries
    /\ registries' = Append(registries, EmptyProviders)
    /\ r_last' = RegistryResult("ProviderRegistry", "", "", "return",
                               "ProviderRegistry", << >>, << >>, 0)
    /\ r_call' = NoRegistration
    /\ UNCHANGED << providers, instances, r_handed, registry_cache, registry_refs >>

\* (mutation: _providers is one dict shared by every registry object)
RegisterOn_SharedDict(obj, ty, name, cls) ==
    /\ obj \in DOMAIN registries
    /\ ty \in Implements(cls)
    /\ r_call' = [ arg |-> cls, old |-> registries[obj][<< ty, name >>] ]
    /\ registries' = [ o \in DOMAIN registries |->
                         [ registries[o] EXCEPT ![<< ty, name >>] = cls ] ]
    /\ r_last' = RegistryResult("register_provider", ty, name, "return",
                               "None", << >>, << >>, obj)
    /\ UNCHANGED << providers, instances, r_handed, registry_cache, registry_refs >>

\* register_provider on the registry object obj (lines 92-100)
RegisterOn(obj, ty, name, cls) ==
    /\ obj \in DOMAIN registries
    /\ r_call' = [ arg |-> cls, old |-> registries[obj][<< ty, name >>] ]
    /\ IF ty \notin ProviderTypes
       THEN /\ r_last' = RegistryResult("register_provider", ty, name, "raise",
                               "ValueError",
                               << Word("Unknown provider type:"), Word(ty) >>,
                               << >>, obj)
            /\ UNCHANGED registries
       ELSE IF ty \notin Implements(cls)
       THEN /\ r_last' = RegistryResult("register_provider", ty, name, "raise",
                               "TypeError",
                               << Word("Provider class"), Word(cls),
                                  Word("must inherit from"), Word(BaseClassName(ty)),
                                  Word("for provider_type"), Quoted(ty) >>,
                               << >>, obj)
            /\ UNCHANGED registries
       ELSE /\ registries' = [ registries EXCEPT ![obj][<< ty, name >>] = cls ]
            /\ r_last' = RegistryResult("register_provider", ty, name, "return",
                               "None", << >>, << >>, obj)
    /\ UNCHANGED << providers, instances, r_handed, registry_cache, registry_refs >>

\* get_provider on the registry object obj (lines 131-141)
GetOn(obj, ty, name) ==
    /\ obj \in DOMAIN registries
    /\ IF registries[obj][<< ty, name >>] = NoClass
       THEN /\ r_last' = RegistryResult("get_provider", ty, name, "raise",
                               "KeyError", << >>, << >>, obj)
            /\ UNCHANGED << instances, r_handed >>
       ELSE /\ instances < MaxInstances
            /\ instances' = instances + 1
            /\ r_last' = RegistryResult("get_provider", ty, name, "return",
                               registries[obj][<< ty, name >>], << >>, << >>,
                               obj)
            /\ r_handed' = Append(r_handed, instances + 1)
    /\ r_call' = NoRegistration
    /\ UNCHANGED << providers, singletonVars >>

\* list_providers on the registry object obj (lines 162-165)
ListOn(obj, ty) ==
    /\ obj \in DOMAIN registries
    /\ r_last' = RegistryResult("list_providers", ty, "", "return", "list", << >>,
                               Sorted({ name \in ProviderNames :
                                          registries[obj][<< ty, name >>] # NoClass }),
                               obj)
    /\ r_call' = NoRegistration
    /\ UNCHANGED << providers, instances, r_handed, singletonVars >>

\* ------------------------------------------------------------------------
\* Specifications
\* ------------------------------------------------------------------------
\* Tasks sharing one RateLimiter.
LimiterNext ==
    \/ \E t \in Tasks : AcquireCall(t) /\ UNCHANGED << retryVars, fetchVars, regVars, batchVars, normVars >>
    \/ \E t \in Tasks : AcquireGranted(t) /\ UNCHANGED << retryVars, fetchVars, regVars, batchVars, normVars >>
    \/ \E t \in Tasks : AcquireWake(t) /\ UNCHANGED << retryVars, fetchVars, regVars, batchVars, normVars >>
    \/ GetRemainingRequests /\ UNCHANGED << retryVars, fetchVars, regVars, batchVars, normVars >>
    \/ Tick /\ UNCHANGED << retryVars, fetchVars, regVars, batchVars, normVars >>

InitLimiter ==
    /\ RegistryInit
    /\ NormalizeInit
    /\ BatchInit
    /\ db_session = "none"
    /\ LimiterInit
    /\ ProviderInit
    /\ FetchInit
    /\ retry_attempts = 3 /\ retry_base_delay = 1 /\ retry_max_delay = 60

SpecLimiter == InitLimiter /\ [][LimiterNext]_vars

\* The limiter under a scheduler that makes progress.  The tasks call
\* acquire() any number of times up to time CallsUntil.  The event loop
\* resumes a sleeper when its delay has elapsed and hands a released lock
\* to its first waiter before the clock moves on.  The clock stops once
\* every call made by then has had the time to sleep a whole window.
FairCall(t) ==
    /\ now <= CallsUntil
    /\ AcquireCall(t)
    /\ UNCHANGED << retryVars, fetchVars, regVars, batchVars, normVars >>

FairGranted(t) ==
    AcquireGranted(t) /\ UNCHANGED << retryVars, fetchVars, regVars, batchVars, normVars >>

FairWake(t) ==
    AcquireWake(t) /\ UNCHANGED << retryVars, fetchVars, regVars, batchVars, normVars >>

FairRemaining ==
    GetRemainingRequests /\ UNCHANGED << retryVars, fetchVars, regVars, batchVars, normVars >>

FairTick ==
    /\ now < CallsUntil + NumTasks * (WindowTicks + Epsilon)
    /\ \A t \in Tasks : tpc[t] = "sleeping" => now < wake_at[t]
    /\ ~ (lock_owner = NoTask /\ lock_waiters # << >>)
    /\ now' = now + 1
    /\ remaining' = Never
    /\ acq' = Forget(acq)
    /\ UNCHANGED << max_requests, time_window_seconds, request_times,
                    lock_owner, lock_waiters, tpc, wake_at >>
    /\ UNCHANGED << retryVars, fetchVars, regVars, batchVars, normVars >>

LimiterFairNext ==
    \/ \E t \in Tasks : FairCall(t)
    \/ \E t \in Tasks : FairGranted(t)
    \/ \E t \in Tasks : FairWake(t)
    \/ FairRemaining
    \/ FairTick

SpecLimiterFair ==
    /\ InitLimiter
    /\ [][LimiterFairNext]_vars
    /\ WF_vars(FairTick)
    /\ \A t \in Tasks : WF_vars(FairGranted(t)) /\ WF_vars(FairWake(t))

\* One provider whose with_retry is called with an arbitrary operation.
RetryNext ==
    \/ \E tk \in Tickers : WithRetryCall(tk) /\ UNCHANGED << limVars, fetchVars, regVars, batchVars, normVars >>
    \/ \E out \in OpOutcomes : Attempt(out) /\ UNCHANGED << limVars, fetchVars, regVars, batchVars, normVars >>
    \/ BackoffWake /\ UNCHANGED << limVars, fetchVars, regVars, batchVars, normVars >>

InitRetry ==
    /\ RegistryInit
    /\ NormalizeInit
    /\ BatchInit
    /\ db_session = "none"
    /\ LimiterInit /\ max_requests = 1
    /\ ProviderInit
    /\ FetchInit

SpecRetry == InitRetry /\ [][RetryNext]_vars

\* One YahooYFinanceProvider serving single-item fetches.
FetchNext ==
    \/ \E m \in Methods, tk \in FetchTickers, via \in { "fetch", "impl" },
          mode \in RawOutcomes : FetchCall(m, tk, via, mode) /\ UNCHANGED << regVars, batchVars, normVars >>
    \/ ImplBindFails /\ UNCHANGED << regVars, batchVars, normVars >>
    \/ ImplAcquire /\ UNCHANGED << regVars, batchVars, normVars >>
    \/ ImplAcquireWake /\ UNCHANGED << regVars, batchVars, normVars >>
    \/ RawStart /\ UNCHANGED << regVars, batchVars, normVars >>
    \/ \E mode \in RawOutcomes : RawReturn(mode) /\ UNCHANGED << regVars, batchVars, normVars >>
    \/ FetchBackoffWake /\ UNCHANGED << regVars, batchVars, normVars >>
    \/ FetchTick /\ UNCHANGED << regVars, batchVars, normVars >>
    \/ \E exchange \in { NoneStr, "NYSE" }, country \in { NoneStr, "US" },
          is_active_only \in BOOLEAN :
          FetchCompanyList(exchange, country, is_active_only)
            /\ UNCHANGED << regVars, batchVars, normVars >>

InitFetch ==
    /\ RegistryInit
    /\ NormalizeInit
    /\ BatchInit
    /\ LimiterInit
    /\ ProviderInit /\ retry_base_delay = 1 /\ retry_max_delay = 60
    /\ FetchInit

SpecFetch == InitFetch /\ [][FetchNext]_vars

\* One YahooYFinanceProvider serving one batch call.
BatchNext ==
    \/ \E m \in Methods, tickers \in TickerLists(MaxBatch), mode \in BatchModes :
          BatchCall(m, tickers, mode) /\ UNCHANGED << regVars, normVars >>
    \/ \E mode \in BatchModes : BatchAdvance(mode) /\ UNCHANGED << regVars, normVars >>
    \/ ImplBindFails /\ UNCHANGED << regVars, batchVars, normVars >>
    \/ FetchBackoffWake /\ UNCHANGED << regVars, batchVars, normVars >>
    \/ FetchTick /\ UNCHANGED << regVars, batchVars, normVars >>

InitBatch ==
    /\ RegistryInit
    /\ NormalizeInit
    /\ BatchInit
    /\ db_session = "none"
    /\ LimiterInit /\ max_requests = 1
    /\ ProviderInit /\ retry_base_delay = 1 /\ retry_max_delay = 60
    /\ FetchInit

SpecBatch == InitBatch /\ [][BatchNext]_vars

\* The registries of one process: the one get_provider_registry hands out
\* and those constructed directly.
SingletonTypes == { "company", "fundamentals" }
SingletonNames == { "yahoo" }

SingletonNext ==
    \/ GetProviderRegistry /\ UNCHANGED << limVars, retryVars, fetchVars, batchVars, normVars >>
    \/ ConstructRegistry /\ UNCHANGED << limVars, retryVars, fetchVars, batchVars, normVars >>
    \/ \E obj \in 1 .. MaxRegistries, ty \in SingletonTypes, name \in SingletonNames,
          cls \in ProviderClasses :
          RegisterOn(obj, ty, name, cls)
            /\ UNCHANGED << limVars, retryVars, fetchVars, batchVars, normVars >>
    \/ \E obj \in 1 .. MaxRegistries, ty \in SingletonTypes :
          ListOn(obj, ty) /\ UNCHANGED << limVars, retryVars, fetchVars, batchVars, normVars >>

InitSingleton ==
    /\ RegistryInit
    /\ NormalizeInit
    /\ BatchInit
    /\ db_session = "none"
    /\ LimiterInit /\ max_requests = 1
    /\ ProviderInit /\ retry_attempts = 3 /\ retry_base_delay = 1 /\ retry_max_delay = 60
    /\ FetchInit

SpecSingleton == InitSingleton /\ [][SingletonNext]_vars

\* Registry objects constructed side by side, each registering, listing
\* and instantiating providers.
InstancesNext ==
    \/ ConstructRegistry /\ UNCHANGED << limVars, retryVars, fetchVars, batchVars, normVars >>
    \/ \E obj \in 1 .. MaxRegistries, ty \in SingletonTypes, name \in ProviderNames,
          cls \in { "MockAllProvider", "PlainObject" } :
          RegisterOn(obj, ty, name, cls)
            /\ UNCHANGED << limVars, retryVars, fetchVars, batchVars, normVars >>
    \/ \E obj \in 1 .. MaxRegistries, ty \in SingletonTypes :
          ListOn(obj, ty) /\ UNCHANGED << limVars, retryVars, fetchVars, batchVars, normVars >>
    \/ \E obj \in 1 .. MaxRegistries, ty \in SingletonTypes, name \in ProviderNames :
          GetOn(obj, ty, name) /\ UNCHANGED << limVars, retryVars, fetchVars, batchVars, normVars >>

InitInstances ==
    /\ RegistryInit
    /\ NormalizeInit
    /\ BatchInit
    /\ db_session = "none"
    /\ LimiterInit /\ max_requests = 1
    /\ ProviderInit /\ retry_attempts = 3 /\ retry_base_delay = 1 /\ retry_max_delay = 60
    /\ FetchInit

SpecInstances == InitInstances /\ [][InstancesNext]_vars

\* The normalizers of YahooYFinanceProvider, each called on its own.
NormalizeNext ==
    \/ /\ n_op = "none"
       /\ \E income \in StatementFrames("income"), balance \in StatementFrames("balance"),
          cashflow \in StatementFrames("cashflow"),
          start_year \in YearChoices, end_year \in YearChoices :
          /\ NormalizeStatementsCall("aapl",
                [ t \in TableNames |-> CASE t = "income" -> income
                                         [] t = "balance" -> balance
                                         [] OTHER -> cashflow ],
                start_year, end_year)
          /\ UNCHANGED << limVars, retryVars, fetchVars, regVars, batchVars >>
    \/ /\ n_op = "none"
       /\ \E df \in FieldFrames, fiscal_date \in { 20221231, 20231231 },
          field_name \in FieldNames :
          /\ GetFinancialFieldCall(df, fiscal_date, field_name)
          /\ UNCHANGED << limVars, retryVars, fetchVars, regVars, batchVars >>
    \/ /\ n_op = "none"
       /\ \E tk \in FetchTickers, info \in Infos :
          /\ NormalizeProfileCall(tk, info)
          /\ UNCHANGED << limVars, retryVars, fetchVars, regVars, batchVars >>
    \/ /\ n_op = "none"
       /\ \E history_df \in { NoHistory } \cup { HistoryFrame(r) : r \in RowLists(MaxRows) } :
          /\ NormalizePriceCall("aapl", history_df)
          /\ UNCHANGED << limVars, retryVars, fetchVars, regVars, batchVars >>

InitNormalize ==
    /\ RegistryInit
    /\ NormalizeInit
    /\ BatchInit
    /\ db_session = "none"
    /\ LimiterInit /\ max_requests = 1
    /\ ProviderInit /\ retry_attempts = 3 /\ retry_base_delay = 1 /\ retry_max_delay = 60
    /\ FetchInit

SpecNormalize == InitNormalize /\ [][NormalizeNext]_vars

\* One ProviderRegistry.
RegistryNext ==
    \/ \E ty \in RequestTypes, name \in ProviderNames, cls \in ProviderClasses :
          RegisterProvider(ty, name, cls)
            /\ UNCHANGED << limVars, retryVars, fetchVars, batchVars, normVars, singletonVars >>
    \/ \E ty \in RequestTypes, name \in ProviderNames :
          GetProvider(ty, name)
            /\ UNCHANGED << limVars, retryVars, fetchVars, batchVars, normVars, singletonVars >>
    \/ \E ty \in RequestTypes :
          ListProvidersCall(ty)
            /\ UNCHANGED << limVars, retryVars, fetchVars, batchVars, normVars, singletonVars >>

InitRegistry ==
    /\ RegistryInit
    /\ NormalizeInit
    /\ BatchInit
    /\ db_session = "none"
    /\ LimiterInit /\ max_requests = 1
    /\ ProviderInit /\ retry_attempts = 3 /\ retry_base_delay = 1 /\ retry_max_delay = 60
    /\ FetchInit

SpecRegistry == InitRegistry /\ [][RegistryNext]_vars

\* C1: at every instant the number of recorded timestamps not older than
\* the window is at most max_requests.
C1_WindowNeverExceeded ==
    Cardinality(InWindow(request_times, now)) <= max_requests

C1_Witness ==
    /\ Len(request_times) = max_requests
    /\ Cardinality(InWindow(request_times, now)) = max_requests
    /\ \E t \in Tasks : acq[t].slept /\ acq[t].returned
    /\ \E t \in Tasks : tpc[t] = "waiting"

\* C9 as stated: a call made at time now returns without suspending exactly
\* when fewer than max_requests unexpired timestamps remain at that time, and
\* otherwise does not record before window - (now - oldest) has elapsed.
C9_AsStated ==
    \A t \in Tasks :
        acq[t].called =>
            /\ (acq[t].waited \/ acq[t].slept) <=> acq[t].fullAtCall
            /\ ~acq[t].earlyCall

\* C9 amended: a call that holds the lock and reads the clock at time now
\* returns without sleeping exactly when fewer than max_requests unexpired
\* timestamps remain at that time; otherwise it sleeps and does not record
\* before window - (now - oldest) has elapsed.  A call that found
\* max_requests unexpired timestamps when it was made never records before
\* window - (now - oldest) has elapsed since it was made.
C9_UnderLock ==
    \A t \in Tasks :
        /\ acq[t].ran =>
            /\ acq[t].slept <=> acq[t].fullAtBody
            /\ ~acq[t].earlyBody
            /\ (tpc[t] = "sleeping") <=> (acq[t].slept /\ ~acq[t].returned)
        /\ acq[t].called => ~acq[t].earlyCall
        /\ (acq[t].called /\ ~acq[t].ran) => tpc[t] = "waiting"

C9_Witness ==
    \E t \in Tasks :
        /\ acq[t].returned /\ acq[t].slept /\ acq[t].fullAtBody
        /\ Len(request_times) = max_requests
        /\ request_times[Len(request_times)] = now

\* ------------------------------------------------------------------------
\* with_retry: claims
\* ------------------------------------------------------------------------
\* with_retry raised the error built after the last attempt, not one the
\* operation raised
Exhausted == wpc = "raised" /\ w_raised \notin Range(errs)

\* the i-th error the operation raised was re-raised at once: it is what
\* with_retry raised, the operation was invoked i times and not again, and
\* no sleep followed it
PropagatedAtOnce(i) ==
    /\ i = Len(errs)
    /\ wpc = "raised"
    /\ w_raised = errs[i]
    /\ calls = i
    /\ Len(sleeps) = i - 1

\* the message itself holds a permanent pattern, compared case-insensitively
MessagePermanent(e) ==
    ContainsLower(e.message, "invalid") \/ ContainsLower(e.message, "not found")

\* C2: a RateLimitError raised by the operation is re-raised at once: no
\* further invocation, no backoff sleep, not replaced by the "Failed after N
\* attempts" error, whatever retry_attempts is.
C2_RateLimitNotRetried ==
    \A i \in DOMAIN errs :
        errs[i].cls = "RateLimitError" => PropagatedAtOnce(i)

C2_Witness ==
    /\ wpc = "raised"
    /\ w_raised.cls = "RateLimitError"
    /\ Len(errs) = 2
    /\ retry_attempts = 3

\* C3: a ProviderError whose message contains "invalid" or "not found"
\* (case-insensitively) is re-raised at once: zero additional attempts, no
\* backoff sleep.
C3_PermanentNotRetried ==
    \A i \in DOMAIN errs :
        (IsProviderError(errs[i]) /\ MessagePermanent(errs[i])) => PropagatedAtOnce(i)

C3_Witness ==
    /\ wpc = "raised"
    /\ w_raised.cls = "ProviderError"
    /\ w_raised.message = << "ticker", "Not Found" >>
    /\ Len(errs) = 2
    /\ retry_attempts = 3

\* C4: every ProviderError whose message contains neither pattern, and every
\* exception that is no ProviderError, is treated as transient: it is
\* recorded and, while attempts remain, another attempt follows; the
\* classification depends on the message alone.
TransientByMessage(e) ==
    /\ e.cls # "RateLimitError"
    /\ IsProviderError(e) => ~MessagePermanent(e)

C4_TransientByMessageAlone ==
    \A i \in DOMAIN errs :
        TransientByMessage(errs[i]) =>
            /\ w_raised # errs[i]
            /\ i = Len(errs) => last_exception = errs[i]
            /\ (i = Len(errs) /\ i < retry_attempts) => wpc \in { "backoff", "attempt" }

\* C5: an operation that fails transiently on every attempt is invoked
\* exactly retry_attempts times; the sleep after failed attempt k, for each
\* k < retry_attempts, is min(base * 2^(k-1), max), and there is no other
\* sleep.
C5_BackoffSchedule ==
    /\ \A k \in DOMAIN sleeps :
          /\ k < retry_attempts
          /\ sleeps[k] = Min(retry_base_delay * (2 ^ (k - 1)), retry_max_delay)
    /\ Exhausted =>
          /\ calls = retry_attempts
          /\ sleeps = [ k \in 1 .. (retry_attempts - 1) |->
                          Min(retry_base_delay * (2 ^ (k - 1)), retry_max_delay) ]

C5_Witness ==
    /\ Exhausted
    /\ retry_attempts = 3 /\ retry_base_delay = 1 /\ retry_max_delay = 60
    /\ calls = 3
    /\ sleeps = << 1, 2 >>

\* C6: after retry_attempts (>= 1) transient failures with_retry raises a
\* ProviderError with the adapter's provider name, the ticker given to
\* with_retry, the last attempt's failure as original_exception, and a
\* message that contains the attempt count and the ticker.
C6_ExhaustedErrorContents ==
    (Exhausted /\ errs # << >>) =>
        /\ Len(errs) = retry_attempts
        /\ w_raised.cls = "ProviderError"
        /\ w_raised.provider_name = provider_name
        /\ w_raised.ticker = w_ticker
        /\ w_raised.original = errs[Len(errs)]
        /\ ToStr(retry_attempts) \in Range(w_raised.message)
        /\ Truthy(w_ticker) => w_ticker \in Range(w_raised.message)

C6_Witness ==
    /\ Exhausted
    /\ Len(errs) = 3
    /\ w_ticker = "AAPL"
    /\ errs[2].cls = "ProviderError"
    /\ errs[3].cls = "TimeoutError"
    /\ w_raised.original.cls = "TimeoutError"
\* ------------------------------------------------------------------------
\* Single-item fetches
\* ------------------------------------------------------------------------
FetchDone == fpc \in { "returned", "raised" }

\* what the provider did, or is about to do, with the first raw call
FirstRawOutcome == IF raw_log # << >> THEN raw_log[1] ELSE provider_mode

\* C7: when the first raw call would succeed with a usable payload,
\* fetch_<method>(T) invokes the internal fetch once and the raw call once,
\* both with T, does not sleep, and returns the DTO(s) for T.
C7_FirstAttemptSuccess ==
    (f_via = "fetch" /\ FetchDone /\ retry_attempts >= 1
        /\ FirstRawOutcome = "ok")
    => /\ fpc = "returned"
       /\ f_result = Dto(f_method, f_ticker)
       /\ calls = 1
       /\ raw_calls = << f_ticker >>
       /\ sleeps = << >>

\* the classes of an error and of the errors it was raised from
RECURSIVE CauseChain(_)
CauseChain(e) ==
    IF e.cls = "None" THEN { }
    ELSE { e.cls } \cup (IF "original" \in DOMAIN e THEN CauseChain(e.original) ELSE { })

\* C8: when the first raw call of a fetch raises RateLimitError there is no
\* second raw call and no backoff sleep, and what the fetch raises is that
\* throttling error.
C8_ThrottlingNotRetried ==
    (raw_log # << >> /\ raw_log[1] = "rate_limit"
        /\ ~ (ipc = "raw" /\ Len(raw_calls) = 1))
    => /\ fpc = "raised"
       /\ Len(raw_calls) = 1
       /\ sleeps = << >>
       /\ "RateLimitError" \in CauseChain(f_raised)

\* C10: no raw call stays in flight for longer than request_timeout
\* seconds.
C10_RawCallBounded ==
    ipc = "raw" => now - raw_started <= request_timeout * TicksPerSecond

\* ------------------------------------------------------------------------
\* RateLimiter: admission order and queue ownership
\* ------------------------------------------------------------------------
\* the timestamp queue is in non-decreasing order
QueueSorted ==
    \A i, j \in DOMAIN request_times : i < j => request_times[i] <= request_times[j]

\* In a step in which task t records its timestamp: if t was waiting for the
\* lock it was the longest-waiting caller, if it had just called nobody was
\* waiting or inside, and no other caller was suspended in the limiter's
\* sleep.
AdmittedInOrder ==
    \A t \in Tasks :
        acq'[t].returned =>
            /\ tpc[t] = "waiting" => Head(lock_waiters) = t
            /\ tpc[t] = "idle" => lock_waiters = << >> /\ lock_owner = NoTask
            /\ \A u \in Tasks \ { t } : tpc[u] # "sleeping"

\* C17: callers are admitted one at a time in the order in which they
\* started waiting for the lock, nobody records while another caller sleeps
\* inside acquire(), and the timestamp queue is always non-decreasing.
C17_FifoAdmission == [] QueueSorted /\ [][AdmittedInOrder]_vars

\* a caller that waited for the lock has just recorded, while a later
\* caller still waits
C17_Witness ==
    \E t \in Tasks :
        /\ acq[t].returned /\ acq[t].waited
        /\ lock_waiters # << >>
        /\ Len(request_times) >= 2

\* C18: the timestamp queue changes only in a step of a task that holds
\* the lock, and a get_remaining_requests() call leaves it unchanged.
C18_QueueChangedUnderLockOnly ==
    [][ request_times' # request_times
            => /\ remaining' = Never
               /\ \E t \in Tasks : lock_owner' = t \/ acq'[t].returned ]_vars

\* C19: an InsufficientDataError raised by the operation is re-raised at
\* once, after a single attempt and with no sleep, whatever its message.
C19_InsufficientDataNotRetried ==
    \A i \in DOMAIN errs :
        errs[i].cls = "InsufficientDataError" => PropagatedAtOnce(i)

\* ------------------------------------------------------------------------
\* ProviderRegistry: claims
\* ------------------------------------------------------------------------
\* the part of an error text after "Available providers:"
Listing(text) ==
    LET at == CHOOSE i \in DOMAIN text : text[i] = Word("Available providers:")
    IN  SubSeq(text, at + 1, Len(text))

\* C20: get_provider for a pair that is not registered raises KeyError; its
\* text names the type and the name, and lists exactly the names registered
\* under the type, or says "none" when there are none; the registry is left
\* as it was.
C20_MissingProviderError ==
    [][ \A ty \in RequestTypes, name \in ProviderNames :
          (r_last'.op = "get_provider" /\ r_last'.type = ty /\ r_last'.name = name
              /\ ~ Registered(ty, name))
          => /\ r_last'.kind = "raise"
             /\ r_last'.cls = "KeyError"
             /\ providers' = providers
             /\ instances' = instances
             /\ Quoted(ty) \in Range(SubSeq(r_last'.text, 1, 2))
             /\ Quoted(name) \in Range(SubSeq(r_last'.text, 3, 4))
             /\ LET names == { n \in ProviderNames : providers[<< ty, n >>] # NoClass }
                    listing == Listing(r_last'.text)
                IN  IF names = { } THEN listing = << Word("none") >>
                    ELSE /\ Range(listing) = { Quoted(n) : n \in names }
                         /\ Len(listing) = Cardinality(names) ]_vars

\* a failed lookup of a name that is registered under another type only,
\* while the type asked for has the other name
C20_Witness ==
    /\ r_last.op = "get_provider" /\ r_last.kind = "raise"
    /\ Len(Listing(r_last.text)) = 1
    /\ Listing(r_last.text) # << Word("none") >>
    /\ \E ty \in ProviderTypes \ { r_last.type } : Registered(ty, r_last.name)

\* the step is a register_provider call
RegisterStep == r_last'.op = "register_provider"

\* C21: register_provider with a class that does not implement the
\* interface of a known type raises TypeError, whose text names the
\* interface expected, and leaves every entry of the registry, the one
\* under (type, name) included, and so every list_providers result as it
\* was.
C21_WrongClassRejected ==
    [][ (RegisterStep /\ r_last'.type \in ProviderTypes
            /\ r_last'.type \notin Implements(r_call'.arg))
        => /\ r_last'.kind = "raise"
           /\ r_last'.cls = "TypeError"
           /\ Word(BaseClassName(r_last'.type)) \in Range(r_last'.text)
           /\ providers' = providers
           /\ \A ty \in RequestTypes : ListProviders(ty)' = ListProviders(ty) ]_vars

\* a class was refused for a pair that holds a class registered earlier
C21_Witness ==
    /\ r_last.op = "register_provider"
    /\ r_last.cls = "TypeError"
    /\ r_call.old # NoClass
    /\ providers[<< r_last.type, r_last.name >>] = r_call.old

\* names[i] comes before names[j] whenever i < j
Ascending(names) ==
    \A i, j \in DOMAIN names : i < j => StrLess(names[i], names[j])

C22_WitnessUnknownType ==
    /\ r_last.op = "list_providers"
    /\ r_last.type \notin ProviderTypes
    /\ \E k \in RegistryKeys : providers[k] # NoClass

\* C23: a get_provider call on a registered pair returns an instance that
\* no earlier call returned, of the class registered under the pair.
C23_NewInstanceEachCall ==
    /\ \A i, j \in DOMAIN r_handed : i # j => r_handed[i] # r_handed[j]
    /\ (r_last.op = "get_provider" /\ r_last.kind = "return")
       => /\ r_handed # << >>
          /\ r_last.instance = r_handed[Len(r_handed)]
          /\ r_last.cls = providers[<< r_last.type, r_last.name >>]
          /\ r_last.cls \in ProviderClasses

\* get_provider returned for the second time
C23_Witness ==
    /\ r_last.op = "get_provider" /\ r_last.kind = "return"
    /\ Len(r_handed) = 2

\* C24: a register_provider call that returns leaves its class under
\* (type, name), whatever the pair held before; a get_provider call on the
\* pair returns an instance of the class the pair holds, and
\* list_providers(type) has the name once.
C24_ReRegistrationReplaces ==
    [][ /\ \A ty \in RequestTypes, name \in ProviderNames :
              (RegisterStep /\ r_last'.kind = "return"
                  /\ r_last'.type = ty /\ r_last'.name = name)
              => /\ providers'[<< ty, name >>] = r_call'.arg
                 /\ Cardinality({ i \in DOMAIN ListProviders(ty)' :
                                    ListProviders(ty)'[i] = name }) = 1
        /\ (r_last'.op = "get_provider" /\ r_last'.kind = "return")
           => r_last'.cls = providers[<< r_last'.type, r_last'.name >>] ]_vars

\* a class was registered over a different one
C24_Witness ==
    /\ r_last.op = "register_provider" /\ r_last.kind = "return"
    /\ r_call.old \notin { NoClass, r_call.arg }
    /\ providers[<< r_last.type, r_last.name >>] = r_call.arg

\* C25: every get_provider_registry call returns the same ProviderRegistry
\* object, so what the object returned holds is what every reference
\* returned before shows, registrations made through them included; a
\* registry that was just constructed holds no provider, and a registry
\* gets an entry by a register_provider call on it only.
C25_SingletonRegistry ==
    /\ [] (\A i, j \in DOMAIN registry_refs : registry_refs[i] = registry_refs[j])
    /\ [][ /\ Len(registry_refs') > Len(registry_refs)
              => \A i \in DOMAIN registry_refs :
                    registries'[registry_refs'[Len(registry_refs')]]
                        = registries[registry_refs[i]]
           /\ Len(registries') > Len(registries)
              => registries'[Len(registries')] = EmptyProviders
           /\ \A obj \in DOMAIN registries :
                 registries'[obj] # registries[obj]
                 => /\ r_last'.op = "register_provider"
                    /\ r_last'.instance = obj ]_vars

\* a later get_provider_registry call returned a registry that holds a
\* provider registered through an earlier reference, while a registry
\* constructed directly holds none
C25_Witness ==
    /\ r_last.op = "get_provider_registry"
    /\ Len(registry_refs) >= 2
    /\ registries[registry_refs[Len(registry_refs)]] # EmptyProviders
    /\ \E obj \in DOMAIN registries : registries[obj] = EmptyProviders

\* ------------------------------------------------------------------------
\* Snapshots and errors of single-item fetches
\* ------------------------------------------------------------------------
\* the i-th raw call has come back with a payload
RawCallReturned(i) ==
    /\ raw_log[i] \in { "ok", "unusable", "empty" }
    /\ ~ (ipc = "raw" /\ i = Len(raw_log))

\* C13: every raw response an attempt obtained, an empty one included, has
\* been handed to the snapshot recorder.
C13_EveryResponseRecorded ==
    \A i \in DOMAIN raw_log :
        RawCallReturned(i)
        => \E j \in DOMAIN snapshots :
              /\ snapshots[j].payload = raw_log[i]
              /\ snapshots[j].entity_key = raw_calls[i]

\* C14: every snapshot _log_raw_snapshot returned has an identifier that
\* is not None and differs from those of all earlier snapshots, the time
\* it was taken, the provider name, and the entity it was taken for, with
\* or without a database session.
C14_SnapshotIdentified ==
    \A i \in DOMAIN snapshots :
        /\ snapshots[i].snapshot_id # NoId
        /\ \A j \in 1 .. i - 1 : snapshots[j].snapshot_id # snapshots[i].snapshot_id
        /\ snapshots[i].provider_name = "yahoo_finance"
        /\ snapshots[i].fetched_at <= now
        /\ snapshots[i].entity_key = f_args[1]

\* C15: with a session whose add() or commit() fails, every snapshot is
\* still returned and the session rolled back for it, no failure of the
\* session reaches with_retry, and an attempt whose raw call succeeded
\* returns its DTO(s): one invocation, no sleep.
C15_PersistFailureContained ==
    db_session = "failing"
    => /\ db_rollbacks = Len(snapshots)
       /\ db_rows = { }
       /\ \A i \in DOMAIN errs : "OperationalError" \notin CauseChain(errs[i])
       /\ (f_via # "stub" /\ raw_log # << >> /\ raw_log[1] = "ok" /\ RawCallReturned(1))
          => /\ fpc = "returned"
             /\ f_result = Dto(f_method, f_ticker)
             /\ snapshots # << >>
             /\ calls = 1
             /\ sleeps = << >>

\* a fetch returned its DTO although persisting its snapshot failed
C15_Witness ==
    /\ db_session = "failing"
    /\ fpc = "returned"
    /\ f_result = Dto(f_method, f_ticker)
    /\ db_rollbacks >= 1

\* C16: what fetch_<method>(T) raises is a ProviderError of provider
\* "yahoo_finance" for ticker T that carries what with_retry raised, and
\* with_retry raised it after its last attempt or for a failure it
\* classified as not retryable.
C16_FetchRaisesWrapped ==
    (f_via = "fetch" /\ fpc = "raised")
    => /\ f_raised.cls = "ProviderError"
       /\ f_raised.provider_name = "yahoo_finance"
       /\ f_raised.ticker = f_ticker
       /\ wpc = "raised"
       /\ w_raised # NoError
       /\ f_raised.original = w_raised
       /\ \/ Exhausted /\ calls = retry_attempts
          \/ /\ errs # << >>
             /\ w_raised = errs[Len(errs)]
             /\ Classify(w_raised) = "raise"

\* a fetch raised after three attempts and two sleeps
C16_Witness ==
    /\ f_via = "fetch" /\ fpc = "raised"
    /\ calls = 3
    /\ Len(sleeps) = 2
    /\ f_ticker = "INVALID"

\* ------------------------------------------------------------------------
\* Batch fetches: claims
\* ------------------------------------------------------------------------
\* position i is the last one in the list with its ticker
LastOf(i) == \A j \in i + 1 .. Len(b_tickers) : b_tickers[j] # b_tickers[i]

\* C11: a batch that is over did not raise: its dict has an entry for every
\* ticker given, holding the value fetched where the ticker's fetch
\* returned and None (an empty list for statements) where it raised.
C11_BatchIsolatesFailures ==
    b_pc = "done"
    => /\ Len(b_outcomes) = Len(b_tickers)
       /\ DOMAIN b_results = Range(b_tickers)
       /\ \A i \in DOMAIN b_tickers :
            LastOf(i) =>
                IF b_outcomes[i].kind = "raised"
                THEN b_results[b_tickers[i]] = Nothing(b_method)
                ELSE b_results[b_tickers[i]] = b_outcomes[i].value

\* a batch of three tickers, two of them different, is over and the fetch
\* of the second one raised
C11_Witness ==
    /\ b_pc = "done"
    /\ Len(b_tickers) = 3
    /\ b_tickers[1] # b_tickers[2]
    /\ b_outcomes[2].kind = "raised"
    /\ b_results[b_tickers[2]] = Nothing(b_method)

\* C12: the fetches of a batch are started in list order, each position
\* once, the next one only when the one before has returned or raised, and
\* failures do not end the loop early.
C12_BatchSequential ==
    /\ b_started = SubSeq(b_tickers, 1, b_idx)
    /\ b_pc = "running"
       => /\ b_idx \in 1 .. Len(b_tickers)
          /\ Len(b_outcomes) = b_idx - 1
    /\ b_pc = "done"
       => /\ b_started = b_tickers
          /\ Len(b_outcomes) = Len(b_tickers)
    /\ Len(b_started) - Len(b_outcomes) \in { 0, 1 }

\* the third fetch of a batch is in flight after the first two raised
C12_Witness ==
    /\ b_pc = "running"
    /\ b_idx = 3
    /\ fpc = "running"
    /\ b_outcomes[1].kind = "raised"
    /\ b_outcomes[2].kind = "raised"

\* ------------------------------------------------------------------------
\* Normalization: claims
\* ------------------------------------------------------------------------
\* the periods that are columns of a table given that is not None and has
\* rows and columns
PeriodsGiven ==
    { ts \in Timestamps :
        \E t \in TableNames :
            /\ st_in.data[t] # NoFrame
            /\ st_in.data[t].index # { }
            /\ ts \in st_in.data[t].columns }

\* the year lies within the bounds given, 0 standing for a bound not given
WithinBounds(y) ==
    /\ st_in.start_year # 0 => st_in.start_year <= y
    /\ st_in.end_year # 0 => y <= st_in.end_year

\* C26: no two statements of one result have the same fiscal year.
C26_OneStatementPerYear ==
    n_op = "statements"
    => \A i, j \in DOMAIN st_out :
          i # j => st_out[i].fiscal_year # st_out[j].fiscal_year

TableLacks(t, ts) ==
    \/ st_in.data[t] = NoFrame
    \/ st_in.data[t].index = { }
    \/ st_in.data[t].columns = { }
    \/ ts \notin st_in.data[t].columns

AlternativesPresent ==
    { i \in DOMAIN FieldAlternatives(ff_in.field_name) :
        FieldAlternatives(ff_in.field_name)[i] \in ff_in.df.index }

\* what a cell of the table given gives for a row: its number, None or nan
ValueOfRow(row) ==
    CASE ff_in.df.cells = "num" -> FloatOf(CellNumber(row, ff_in.fiscal_date))
      [] ff_in.df.cells = "nan" -> NaN
      [] OTHER -> PyNone

\* C29: _get_financial_field returns None for a table that is None or
\* empty, for a period that is not a column, and when the table has
\* neither the exact name nor an alternative; otherwise it reads the row
\* with the exact name if there is one, else the row of the first
\* alternative the table has; it returns and never raises.
C29_FieldResolution ==
    n_op = "field"
    => /\ ff_out.kind \in { "None", "float", "nan" }
       /\ IF \/ ff_in.df = NoFrame
             \/ ff_in.df.columns = { } \/ ff_in.df.index = { }
             \/ ff_in.fiscal_date \notin ff_in.df.columns
             \/ (ff_in.field_name \notin ff_in.df.index /\ AlternativesPresent = { })
          THEN ff_out = PyNone
          ELSE IF ff_in.field_name \in ff_in.df.index
          THEN ff_out = ValueOfRow(ff_in.field_name)
          ELSE \E i \in AlternativesPresent :
                  /\ \A j \in AlternativesPresent : i <= j
                  /\ ff_out = ValueOfRow(FieldAlternatives(ff_in.field_name)[i])

\* the table lacks the exact name and has the second and the third
\* alternative: the second was read
C29_Witness ==
    /\ n_op = "field"
    /\ ff_in.field_name = "Stockholders Equity"
    /\ AlternativesPresent = { 2, 3 }
    /\ ff_out = FloatOf(CellNumber("Total Equity Gross Minority Interest",
                                   ff_in.fiscal_date))

\* the keys of the raw payload each optional field of the profile is
\* taken from
SourceKeys(field) ==
    CASE field = "currency" -> { "currency", "financialCurrency" }
      [] field = "market_cap" -> { "marketCap" }
      [] OTHER -> { field }

\* C30: without a long and a short name the profile normalizer returns
\* None; with a name it returns a profile in which every optional field the
\* payload has no key for is None (not a zero, not an error).
C30_ProfileOptionalFields ==
    n_op = "profile"
    => IF \A k \in { "longName", "shortName" } :
             k \notin cp_in.info.keys \/ k \in cp_in.info.blank
       THEN cp_out.is_none
       ELSE /\ ~ cp_out.is_none
            /\ cp_out.name \in { "Apple Inc.", "Apple" }
            /\ \A f \in { "sector", "industry", "country", "currency", "exchange" } :
                  SourceKeys(f) \cap cp_in.info.keys = { } => cp_out[f] = NoneStr
            /\ SourceKeys("market_cap") \cap cp_in.info.keys = { }
               => cp_out.market_cap = PyNone

\* a profile was built from a payload that has a short name only
C30_Witness ==
    /\ n_op = "profile"
    /\ cp_in.info.keys = { "shortName" }
    /\ cp_in.info.blank = { }
    /\ ~ cp_out.is_none
    /\ cp_out.sector = NoneStr
    /\ cp_out.market_cap = PyNone

\* the dates of the rows given that yield a data point
DatesParsed ==
    { ToDate(ph_in.history_df.rows[i].date_idx) :
        i \in { j \in DOMAIN ph_in.history_df.rows :
                  /\ ph_in.history_df.rows[j].close = "num"
                  /\ ph_in.history_df.rows[j].open # "text" } }

\* C31: the data points of a price history come in ascending order of date
\* whatever the order of the source rows; start_date is the earliest and
\* end_date the latest date among them, so start_date is not after
\* end_date; None is returned when there are no rows or no row yields a
\* data point.
C31_PriceHistoryOrdered ==
    n_op = "price"
    => IF ph_in.history_df.none \/ DatesParsed = { }
       THEN ph_out.is_none
       ELSE /\ ~ ph_out.is_none
            /\ \A i, j \in DOMAIN ph_out.data_points :
                  i < j => ~ DateLess(ph_out.data_points[j].date,
                                      ph_out.data_points[i].date)
            /\ { ph_out.data_points[i].date : i \in DOMAIN ph_out.data_points }
                 = DatesParsed
            /\ \A d \in DatesParsed :
                  /\ ~ DateLess(d, ph_out.start_date)
                  /\ ~ DateLess(ph_out.end_date, d)
            /\ ph_out.start_date \in DatesParsed
            /\ ph_out.end_date \in DatesParsed
            /\ ~ DateLess(ph_out.end_date, ph_out.start_date)

\* three rows were given newest first and came back oldest first
C31_Witness ==
    /\ n_op = "price"
    /\ Len(ph_in.history_df.rows) = 3
    /\ \A i \in 1 .. 2 : ph_in.history_df.rows[i].date_idx
                           > ph_in.history_df.rows[i + 1].date_idx
    /\ ~ ph_out.is_none
    /\ Len(ph_out.data_points) = 3
    /\ ph_out.start_date = ToDate(20240102)
    /\ ph_out.end_date = ToDate(20240105)

\* a step that is a call of fetch_company_list
CompanyListStep ==
    \E exchange \in { NoneStr, "NYSE" }, country \in { NoneStr, "US" },
       is_active_only \in BOOLEAN :
       FetchCompanyList(exchange, country, is_active_only)

\* C32: fetch_company_list raises NotImplementedError for every combination
\* of arguments, never a ProviderError, and it takes no rate-limiter slot,
\* makes no raw fetch and goes through no retry.
C32_CompanyListNotImplemented ==
    [][ CompanyListStep
        => /\ fpc' = "raised"
           /\ f_raised'.cls = "NotImplementedError"
           /\ ~ IsProviderError(f_raised')
           /\ request_times' = request_times
           /\ lock_owner' = lock_owner /\ lock_waiters' = lock_waiters
           /\ raw_calls' = raw_calls /\ raw_log' = raw_log
           /\ snapshots' = snapshots
           /\ calls' = calls /\ sleeps' = sleeps /\ wpc' = wpc ]_vars

\* the company list was asked of a provider whose limiter already holds a
\* timestamp, with an exchange and a country given
C32_Witness ==
    /\ f_via = "stub" /\ fpc = "raised"
    /\ f_args = << "NYSE", "US", "False" >>
    /\ f_raised.cls = "NotImplementedError"
    /\ request_times # << >>
    /\ calls > 0

\* the timestamps the fetch has recorded in the limiter: one for each
\* acquire() of the implementation that returned, each followed at once by
\* the raw call
SlotsRecorded ==
    Len(raw_calls) + (IF ipc = "acquire" /\ tpc[FetchTask] = "idle" THEN 1 ELSE 0)

\* C33: every attempt with_retry makes for a capability method takes a
\* rate-limiter slot before its raw fetch: after k attempts k timestamps
\* were recorded, failed attempts included, and no backoff sleep is taken
\* with the limiter's lock held.
C33_SlotPerAttempt ==
    (f_via \in { "fetch", "impl" } /\ wpc \in { "backoff", "returned", "raised" })
    => /\ SlotsRecorded = calls
       /\ Len(raw_calls) = calls
       /\ lock_owner = NoTask

\* C34: with time advancing and the lock granted in turn, every call of
\* acquire() returns, whatever the number of tasks calling concurrently,
\* and the lock is not held by a task whose acquire() has returned.
C34_AcquireReturns ==
    /\ [](\A t \in Tasks : tpc[t] = "idle" => lock_owner # t)
    /\ \A t \in Tasks : (tpc[t] # "idle") ~> (tpc[t] = "idle")

\* a call that queued on the lock and then slept has returned, with the
\* lock free again
C34_Witness ==
    \E t \in Tasks :
        /\ acq[t].returned /\ acq[t].waited /\ acq[t].slept
        /\ tpc[t] = "idle"
        /\ lock_owner = NoTask

\* C35: when the operation returns normally on attempt k, 1 <= k <=
\* retry_attempts, with_retry returns that result (None and the empty list
\* included) after exactly k invocations and k - 1 sleeps, and makes no
\* further attempt and takes no further sleep.
C35_SuccessStops ==
    /\ [](wpc = "returned"
          => /\ calls = attempt
             /\ 1 <= calls /\ calls <= retry_attempts
             /\ Len(sleeps) = calls - 1
             /\ Len(errs) = calls - 1)
    /\ [][ \A out \in OpOutcomes :
             (out.kind = "return" /\ Attempt(out))
             => /\ wpc' = "returned"
                /\ w_result' = out.value
                /\ calls' = attempt ]_vars
    /\ [][ wpc = "returned"
           => \/ \E tk \in Tickers : WithRetryCall(tk)
              \/ UNCHANGED retryVars ]_vars

\* the third attempt returned None after two failures and two sleeps
C35_Witness ==
    /\ wpc = "returned"
    /\ w_result = "None"
    /\ calls = 3
    /\ Len(sleeps) = 2
    /\ retry_attempts = 3

\* the source rows that yield a data point, by position
GoodRows ==
    { i \in DOMAIN ph_in.history_df.rows :
        ParseRow(ph_in.ticker, ph_in.history_df.rows[i]).ok }

\* the periods given whose statement is asked for
PeriodsKept == { p \in PeriodsGiven : WithinBounds(ToDate(p).year) }

\* C36: a failure while one fiscal year is extracted or one price row is
\* parsed stays with that item: it is skipped and the statements or data
\* points of the other items are returned; the normalizer returns.
C36_FailuresIsolated ==
    /\ (n_op = "price" /\ ~ ph_in.history_df.none)
       => IF GoodRows = { } THEN ph_out.is_none
          ELSE /\ ~ ph_out.is_none
               /\ Len(ph_out.data_points) = Cardinality(GoodRows)
               /\ \A i \in GoodRows :
                     \E j \in DOMAIN ph_out.data_points :
                        ph_out.data_points[j]
                          = ParseRow(ph_in.ticker, ph_in.history_df.rows[i]).point
    /\ (n_op = "statements" /\ NotATimestamp \in FiscalDates(st_in.data))
       => /\ Len(st_out) = Cardinality(PeriodsKept)
          /\ \A p \in PeriodsKept :
                \E j \in DOMAIN st_out :
                   st_out[j] = BuildStatement(st_in.ticker, st_in.data, p)

\* of three price rows the second failed and the other two came back
C36_Witness ==
    /\ n_op = "price"
    /\ Len(ph_in.history_df.rows) = 3
    /\ GoodRows = { 1, 3 }
    /\ ph_in.history_df.rows[2].close = "text"
    /\ ~ ph_out.is_none
    /\ Len(ph_out.data_points) = 2

\* C37: a register_provider call that succeeds changes the entry under its
\* (type, name) of the registry it was called on and nothing else: the
\* entries of other types under the same name, of other names under the
\* same type and of every other registry object stay as they were;
\* get_provider and list_providers change no entry.
C37_RegistrationIsLocal ==
    /\ [][ (r_last'.op = "register_provider" /\ r_last'.kind = "return")
           => /\ DOMAIN registries' = DOMAIN registries
              /\ \A o \in DOMAIN registries, k \in RegistryKeys :
                    (o # r_last'.instance \/ k # << r_last'.type, r_last'.name >>)
                    => registries'[o][k] = registries[o][k]
              /\ \A o \in DOMAIN registries :
                    o = r_last'.instance
                    => registries'[o][<< r_last'.type, r_last'.name >>] = r_call'.arg ]_vars
    /\ [][ r_last'.op \in { "get_provider", "list_providers" }
           => registries' = registries ]_vars

\* a class was registered on the first of two registries under a name that
\* is free for its other type and for both types on the second registry,
\* which holds another entry
C37_Witness ==
    /\ Len(registries) = 2
    /\ r_last.op = "register_provider" /\ r_last.kind = "return"
    /\ r_last.instance = 1 /\ r_last.type = "company" /\ r_last.name = "yahoo"
    /\ registries[1][<< "company", "yahoo" >>] = "MockAllProvider"
    /\ registries[1][<< "fundamentals", "yahoo" >>] = NoClass
    /\ registries[1][<< "company", "Zeta" >>] = NoClass
    /\ registries[2][<< "company", "yahoo" >>] = NoClass
    /\ registries[2][<< "fundamentals", "Zeta" >>] = "MockAllProvider"

\* an acquire() called now would be suspended: on the lock, or in the
\* sleep it takes when the window is full
WouldWait ==
    \/ ~ LockFree
    \/ AtCapacity(PopExpired(request_times, now))

\* what get_remaining_requests() returned equals max(0, max_requests - n),
\* n the timestamps not older than the window at the time of the call
RemainingIsCount ==
    LET n == Cardinality(InWindow(request_times, now))
    IN  /\ remaining = (IF max_requests - n > 0 THEN max_requests - n ELSE 0)
        /\ remaining \in 0 .. max_requests

\* C38: get_remaining_requests() returns max(0, max_requests - n), n the
\* recorded timestamps not older than the window at the time of the call;
\* the result lies in 0 .. max_requests, and it is 0 exactly when an
\* acquire() made at that instant would have to wait.
C38_RemainingRequests ==
    remaining # Never
    => /\ RemainingIsCount
       /\ (remaining = 0) <=> WouldWait

\* C39: for every retry_attempts the provider was constructed with,
\* with_retry has invoked the operation at least once when it raises
\* "Failed after N attempts", so the original_exception of that error is
\* never None.
C39_AtLeastOneAttempt ==
    Exhausted
    => /\ calls >= 1
       /\ w_raised.original # NoError

====
